---------------------------- MODULE Spec2Model ----------------------------
(***************************************************************************)
(* A model of api-call/upload_video.py: one invocation of main(), which    *)
(* checks the file, resolves the API key, probes the video, negotiates an  *)
(* upload target, transfers the bytes and finalizes the upload; and of the *)
(* other scripts of the repository, each with its own variables and its    *)
(* own specification: the two webhook listeners, get_status, add_triggers  *)
(* and test_auth.  A specification runs one script and leaves the          *)
(* variables of the others at their idle values.                           *)
(*                                                                         *)
(* Strings the code inspects (the API key, the method tag, the rejection   *)
(* detail, the file extension) are sequences of one-character strings, so  *)
(* that startswith, lower, upper and "in" are computed as Python computes  *)
(* them.  Printed lines are kept in   out   and every call of              *)
(* requests.post / requests.put in   requests .                            *)
(***************************************************************************)
EXTENDS Integers, Sequences, FiniteSets, TLC

VARIABLES
    file,          \* the local file named by --file: what the OS and moviepy see
    argKey,        \* --api-key (<<>> when not given)
    envKey,        \* MOSAIC_API_KEY (<<>> when not set)
    argType,       \* --content-type (<<>> when not given)
    pc,            \* position of main()
    api_key,       \* main's api_key
    content_type,  \* main's content_type
    metadata,      \* main's metadata (NoMetadata before the probe)
    target,        \* (video_id, upload_url, method) returned by negotiation
    fileOpen,      \* TRUE while a handle on the file is open
    requests,      \* the HTTP requests issued so far, in order
    responses,     \* what each request came back with, in order
    stages,        \* the stage functions entered so far, in order
    completed,     \* the stage functions that returned normally, in order
    out,           \* the lines printed so far
    exitCode       \* -1 while running, else the process exit code

uploadVars == <<file, argKey, envKey, argType, pc, api_key, content_type, metadata,
                target, fileOpen, requests, responses, stages, completed, out,
                exitCode>>

\* webhook_listener.py, of api-call and of youtube-automation
VARIABLES
    listener,         \* which of the two scripts runs ("none": neither)
    flagSecret,       \* --webhook-secret, "" when not given (api-call)
    envSecret,        \* MOSAIC_WEBHOOK_SECRET, "" when not set
    mimetypeGivesNone,\* the Flask of the build: get_json() returns None for a
                      \* body that is not declared JSON (before 2.1), or raises
    webhook_history,  \* the module's list
    handler,          \* per request thread: where its handler is and its locals
    posted,           \* webhook POSTs received so far
    accepted,         \* payloads that passed the "if not data" check so far
    reply,            \* the last answer to GET / or GET /history
    stopped           \* the server was interrupted (Ctrl+C); with the line
                      \* main printed then, if any

listenerVars == <<listener, flagSecret, envSecret, mimetypeGivesNone,
                  webhook_history, handler, posted, accepted, reply, stopped>>

\* youtube-automation/add_triggers.py
VARIABLES
    tArgs,      \* the command line and the environment of add_triggers
    tPc,        \* position of its main()
    tRequests,  \* the HTTP requests it issued so far, in order
    tOut,       \* the lines it printed so far
    tExit       \* -1 while running, else the process exit code

triggerVars == <<tArgs, tPc, tRequests, tOut, tExit>>

\* api-call/get_status.py
VARIABLES
    sArgs,      \* the command line of get_status
    sPc,        \* position of its main()
    sResponses, \* what each GET /agent_run/<id> came back with, in order
    sRequests,  \* the number of GET /agent_run/<id> issued so far
    sOut,       \* the lines it printed so far
    sExit       \* -1 while running, else the process exit code

statusVars == <<sArgs, sPc, sResponses, sRequests, sOut, sExit>>

\* youtube-automation/test_auth.py
VARIABLES
    aKey,       \* the API key of test_auth (--api-key or MOSAIC_API_KEY)
    aPc,        \* position of its main() and of MosaicAuthTester
    aRequests,  \* the paths it requested so far, in order
    aResults,   \* the dictionary returned by test_whoami
    aOut,       \* the lines print_results printed
    aExit       \* -1 while running, else the process exit code

authVars == <<aKey, aPc, aRequests, aResults, aOut, aExit>>

vars == <<uploadVars, listenerVars, triggerVars, statusVars, authVars>>

\* The variables of the scripts other than upload_video.py
NotUpload == <<listenerVars, triggerVars, statusVars, authVars>>

\* The variables of the scripts other than the webhook listeners
NotListener == <<uploadVars, triggerVars, statusVars, authVars>>

\* The variables of the scripts other than add_triggers.py
NotTrigger == <<uploadVars, listenerVars, statusVars, authVars>>

\* The variables of the scripts other than get_status.py
NotStatus == <<uploadVars, listenerVars, triggerVars, authVars>>

\* The variables of the scripts other than test_auth.py
NotAuth == <<uploadVars, listenerVars, triggerVars, statusVars>>

-----------------------------------------------------------------------------
(* Bounds of the model *)

\* File sizes are 1..MaxFileSize bytes.
MaxFileSize == 2

\* Request threads of the webhook listener that run at the same time.
MaxThreads == 2

\* Webhook POSTs of one run with requests of every kind.
MaxPosts == 3

\* Webhook POSTs of one run that fills the history beyond MAX_HISTORY.
MaxWebhooks == 102

\* get_status polls at most this many times in a modelled run
MaxPolls == 4

-----------------------------------------------------------------------------
(* The webhook listeners before they start *)

\* request.headers.get('X-Mosaic-Signature') when the header is absent
NoHeader == "<absent>"

\* Python's None as a JSON value (also the JSON null)
NoneValue == [type |-> "none", size |-> 0, id |-> 0]

\* A request with no body and no content type
NoBody == [declared_json |-> FALSE, content |-> "missing", value |-> NoneValue]

\* A request thread that handles no request
IdleHandler ==
    [pc |-> "idle", body |-> NoBody, signature |-> NoHeader, data |-> NoneValue,
     secret_valid |-> TRUE, status |-> 0]

Threads == 1..MaxThreads

NoReply == [kind |-> "none"]

Running == [is |-> FALSE, printed |-> FALSE, total |-> 0]

ListenerIdle ==
    /\ listener = "none"
    /\ flagSecret = ""
    /\ envSecret = ""
    /\ mimetypeGivesNone = FALSE
    /\ webhook_history = <<>>
    /\ handler = [t \in Threads |-> IdleHandler]
    /\ posted = 0
    /\ accepted = 0
    /\ reply = NoReply
    /\ stopped = Running

\* Python's None where a value may be absent
None == [none |-> TRUE]

\* A webhook URL as urlparse splits it
Url(scheme, netloc) == [scheme |-> scheme, netloc |-> netloc]

TriggerIdle ==
    /\ tArgs = [api_key |-> <<>>, env_key |-> <<>>, channels |-> <<>>,
                webhook |-> Url("", ""), remove_webhook |-> FALSE]
    /\ tPc = "none"
    /\ tRequests = <<>>
    /\ tOut = <<>>
    /\ tExit = -1

StatusIdle ==
    /\ sArgs = [api_key |-> <<>>, env_key |-> <<>>, watch |-> FALSE,
                interval |-> 5]
    /\ sPc = "none"
    /\ sResponses = <<>>
    /\ sRequests = 0
    /\ sOut = <<>>
    /\ sExit = -1

NoResults ==
    [success |-> FALSE, status_code |-> -1, response |-> "<none>",
     endpoint |-> "", error |-> FALSE, tested_endpoints |-> <<>>]

AuthIdle ==
    /\ aKey = <<>>
    /\ aPc = "none"
    /\ aRequests = <<>>
    /\ aResults = NoResults
    /\ aOut = <<>>
    /\ aExit = -1

NotUploadIdle == ListenerIdle /\ TriggerIdle /\ StatusIdle /\ AuthIdle

-----------------------------------------------------------------------------
(* Character strings *)

UpperAlphabet == <<"A","B","C","D","E","F","G","H","I","J","K","L","M",
                   "N","O","P","Q","R","S","T","U","V","W","X","Y","Z">>
LowerAlphabet == <<"a","b","c","d","e","f","g","h","i","j","k","l","m",
                   "n","o","p","q","r","s","t","u","v","w","x","y","z">>

\* str.lower() on one character
LowerChar(c) ==
    IF \E i \in 1..26 : UpperAlphabet[i] = c
    THEN LowerAlphabet[CHOOSE i \in 1..26 : UpperAlphabet[i] = c]
    ELSE c

\* str.upper() on one character
UpperChar(c) ==
    IF \E i \in 1..26 : LowerAlphabet[i] = c
    THEN UpperAlphabet[CHOOSE i \in 1..26 : LowerAlphabet[i] = c]
    ELSE c

\* str.lower()
Lower(s) == [i \in 1..Len(s) |-> LowerChar(s[i])]

\* str.upper()
Upper(s) == [i \in 1..Len(s) |-> UpperChar(s[i])]

\* str.startswith(p)
StartsWith(s, p) == Len(s) >= Len(p) /\ SubSeq(s, 1, Len(p)) = p

\* Python's   sub in s   on strings
Contains(s, sub) ==
    \E i \in 1..(Len(s) - Len(sub) + 1) : SubSeq(s, i, i + Len(sub) - 1) = sub


RECURSIVE LastIndexOf(_, _, _)
\* the largest i <= n with s[i] = c, or 0: str.rfind(c) + 1
LastIndexOf(s, c, n) ==
    IF n = 0 THEN 0
    ELSE IF s[n] = c THEN n
    ELSE LastIndexOf(s, c, n - 1)

\* os.path.basename: what follows the last "/"
Basename(path) == SubSeq(path, LastIndexOf(path, "/", Len(path)) + 1, Len(path))

\* os.path.splitext(path)[1]: from the last "." of the last component, unless
\* that dot only follows leading dots of the component
SplitExt(path) ==
    LET base == Basename(path)
        dot  == LastIndexOf(base, ".", Len(base))
    IN  IF dot = 0 \/ \A i \in 1..dot : base[i] = "."
        THEN <<>>
        ELSE SubSeq(base, dot, Len(base))

DigitChars == <<"0","1","2","3","4","5","6","7","8","9">>

RECURSIVE Str(_)
\* str(n) for n >= 0
Str(n) ==
    IF n < 10 THEN <<DigitChars[n + 1]>>
    ELSE Str(n \div 10) \o <<DigitChars[(n % 10) + 1]>>

-----------------------------------------------------------------------------
(* The inputs of an invocation *)

\* 90 minutes in milliseconds, the limit the messages of the negotiation
\* step name
DurationLimitMs == 90 * 60 * 1000

\* clip.duration of a clip whose duration is not known: None
NoDuration == -1

PathMp4 == <<"/","v","/","a",".","m","p","4">>
PathMov == <<"/","v","/","b",".","M","O","V">>
PathTxt == <<"/","v","/","n",".","t","x","t">>

\* What os.path.isfile, os.path.getsize and VideoFileClip report of the path.
\* A path that is no file cannot be decoded; a decoded clip may come without
\* a duration.
Files ==
    {[path |-> PathTxt, exists |-> FALSE, decodable |-> FALSE,
      size |-> 0, width |-> 0, height |-> 0, duration_ms |-> 0]}
    \cup
    {[path |-> PathTxt, exists |-> TRUE, decodable |-> FALSE,
      size |-> n, width |-> 0, height |-> 0, duration_ms |-> 0] :
        n \in 1..MaxFileSize}
    \cup
    {[path |-> p, exists |-> TRUE, decodable |-> TRUE,
      size |-> n, width |-> 1920, height |-> 1080, duration_ms |-> d] :
        p \in {PathMp4, PathMov}, n \in 1..MaxFileSize,
        d \in {DurationLimitMs, DurationLimitMs + 1}}
    \cup
    {[path |-> PathMp4, exists |-> TRUE, decodable |-> TRUE,
      size |-> n, width |-> 1920, height |-> 1080, duration_ms |-> NoDuration] :
        n \in 1..MaxFileSize}

KeyGood == <<"m","k","_","1">>
KeyBad  == <<"s","k","_","1">>

\* --api-key and MOSAIC_API_KEY; <<>> stands for "not given" (None or "")
ApiKeys == {<<>>, KeyBad, KeyGood}

TypeCustom == <<"v","i","d","e","o","/","o","g","g">>

\* --content-type; <<>> stands for "not given"
ContentTypeArgs == {<<>>, TypeCustom}

DEFAULT_BASE_URL == "https://api.mosaic.so"

-----------------------------------------------------------------------------
(* HTTP responses *)

DetailDuration == <<"D","u","r","a","t","i","o","n"," ","o","v","e","r">>
DetailSize     == <<"F","i","l","e"," ","t","o","o"," ","b","i","g">>

MethodPOST == <<"P","O","S","T">>
MethodPost == <<"p","o","s","t">>
MethodPUT  == <<"P","U","T">>
MethodForm == <<"F","O","R","M">>

\* The method tags a negotiation response may carry: the two resumable tags
\* (POST in either letter case, PUT) and a tag for the signed-form mechanism.
Methods == {MethodPOST, MethodPost, MethodPUT, MethodForm}

VideoId == <<"v","1">>

VideoId2 == <<"v","2">>

UploadUrls == {"https://store/x", "https://store/form"}

TargetKeys == {"video_id", "upload_url", "method"}

\* A response body: either text that is no JSON (json = FALSE) or a JSON
\* object with the keys in   keys .  A key that is absent has the value <<>>
\* (or "" for the URL).
EmptyObject ==
    [json |-> TRUE, keys |-> {}, detail |-> <<>>, video_id |-> <<>>,
     upload_url |-> "", method |-> <<>>]

TextBody == [EmptyObject EXCEPT !.json = FALSE]

DetailBody(d) == [EmptyObject EXCEPT !.keys = {"detail"}, !.detail = d]

TargetBody(ks, url, m) ==
    [EmptyObject EXCEPT
        !.keys = ks,
        !.video_id = IF "video_id" \in ks THEN VideoId ELSE <<>>,
        !.upload_url = IF "upload_url" \in ks THEN url ELSE "",
        !.method = IF "method" \in ks THEN m ELSE <<>>]

ErrorBodies == {TextBody, EmptyObject, DetailBody(DetailDuration), DetailBody(DetailSize)}

TargetBodies ==
    {TargetBody(TargetKeys, url, m) : url \in UploadUrls, m \in Methods}
    \cup
    {TargetBody(ks, "https://store/x", MethodPOST) : ks \in (SUBSET TargetKeys) \ {{}}}
    \cup
    {[TargetBody(TargetKeys, "https://store/x", MethodPOST) EXCEPT !.video_id = VideoId2]}

Bodies == ErrorBodies \cup TargetBodies

\* requests raised instead of returning a response (ConnectionError, Timeout)
RaisedResponse ==
    [kind |-> "exception", status |-> 0, json_header |-> FALSE, body |-> TextBody]

\* A response with its status, whether its Content-Type header starts with
\* application/json, and its body
HttpResponse(status, json_header, body) ==
    [kind |-> "response", status |-> status, json_header |-> json_header,
     body |-> body]

NegotiationStatuses == {200, 201, 304, 400, 413, 500}

NegotiationResponses ==
    {RaisedResponse} \cup
    {HttpResponse(st, b.json, b) : st \in NegotiationStatuses, b \in Bodies}

StorageStatuses == {200, 201, 204, 202, 400, 500}

StorageResponses ==
    {RaisedResponse} \cup {HttpResponse(st, FALSE, TextBody) : st \in StorageStatuses}

FinalizeStatuses == {200, 201, 413, 500}

FinalizeResponses ==
    {RaisedResponse} \cup
    {HttpResponse(st, h, b) : st \in FinalizeStatuses, h \in BOOLEAN, b \in ErrorBodies}

-----------------------------------------------------------------------------
(* Printed lines and requests *)

\* A printed line: what it says (tag) and, for a line that shows one, the
\* HTTP status, the text or the response body in it
Say(tag) == [tag |-> tag]

SayStatus(tag, status) == [tag |-> tag, status |-> status]

SayText(tag, text) == [tag |-> tag, text |-> text]

SayBody(tag, body) == [tag |-> tag, body |-> body]

NoMetadata == [width |-> 0, height |-> 0, duration_ms |-> 0, file_size |-> 0]

NoTarget == [video_id |-> <<>>, upload_url |-> "", method |-> <<>>]


\* What an exception caught by main's   except Exception   says: its message
\* (what) and the HTTP status the message shows (0: none)
Error(what, status) == [what |-> what, status |-> status]

NoError == Error("", 0)

-----------------------------------------------------------------------------
(* resolve_api_key, determine_content_type *)

\* explicit_key or os.environ.get("MOSAIC_API_KEY")
KeyOrEnv(explicit, env) == IF explicit # <<>> THEN explicit ELSE env

\* resolve_api_key: "ok", or the reason it exits with code 1
resolve_api_key(explicit, env) ==
    LET key == KeyOrEnv(explicit, env)
    IN  IF key = <<>> THEN "key_required"
        ELSE IF ~StartsWith(key, <<"m","k","_">>) THEN "key_format"
        ELSE "ok"

TypeMp4  == <<"v","i","d","e","o","/","m","p","4">>
TypeMov  == <<"v","i","d","e","o","/","q","u","i","c","k","t","i","m","e">>
TypeAvi  == <<"v","i","d","e","o","/","x","-","m","s","v","i","d","e","o">>
TypeWebm == <<"v","i","d","e","o","/","w","e","b","m">>
TypeMkv  == <<"v","i","d","e","o","/","x","-","m","a","t","r","o","s","k","a">>
TypeM4v  == <<"v","i","d","e","o","/","x","-","m","4","v">>

content_type_map ==
    {<< <<".","m","p","4">>, TypeMp4 >>,
     << <<".","m","o","v">>, TypeMov >>,
     << <<".","a","v","i">>, TypeAvi >>,
     << <<".","w","e","b","m">>, TypeWebm >>,
     << <<".","m","k","v">>, TypeMkv >>,
     << <<".","m","4","v">>, TypeM4v >>}

\* determine_content_type looking the extension up as it is written
determine_content_type_no_lower(file_path, explicit) ==
    IF explicit # <<>> THEN explicit
    ELSE LET file_ext == SplitExt(file_path)
         IN  IF \E e \in content_type_map : e[1] = file_ext
             THEN (CHOOSE e \in content_type_map : e[1] = file_ext)[2]
             ELSE TypeMp4

determine_content_type(file_path, explicit) ==
    IF explicit # <<>> THEN explicit
    ELSE LET file_ext == Lower(SplitExt(file_path))
         IN  IF \E e \in content_type_map : e[1] = file_ext
             THEN (CHOOSE e \in content_type_map : e[1] = file_ext)[2]
             ELSE TypeMp4

-----------------------------------------------------------------------------
(* get_video_metadata *)

\* The metadata dictionary built from the clip and os.path.getsize
ProbedMetadata(f) ==
    [width |-> f.width, height |-> f.height,
     duration_ms |-> f.duration_ms, file_size |-> f.size]

\* VideoFileClip(file_path) returns a clip (TRUE) or raises
ClipOpens(f) == f.decodable

\* get_video_metadata whose except clause does not exit
ProbeReturnsAlways(f) == TRUE

\* Whether the body of the with block returns the metadata (TRUE) or raises:
\* int(clip.duration * 1000) raises TypeError when the duration is None
ProbeReturns(f) == f.duration_ms # NoDuration

\* a with statement that skips __exit__ when its body raised
WithExitLeaksOnRaise(raised) == raised

\* Whether the handle is still open after the with statement: __exit__
\* closes it whether the body returned or raised
WithExit(raised) == FALSE

-----------------------------------------------------------------------------
(* get_upload_url_with_metadata *)

ControlHeaders(key) ==
    ("Authorization" :> (<<"B","e","a","r","e","r"," ">> \o key))
    @@ ("Content-Type" :> <<"a","p","p","l","i","c","a","t","i","o","n","/","j","s","o","n">>)

NegotiationRequest(base_url, key, filename, ctype, md) ==
    [endpoint |-> "get_upload_url",
     verb     |-> "POST",
     url      |-> base_url,
     path     |-> "/videos/get_upload_url",
     headers  |-> ControlHeaders(key),
     json     |-> [filename |-> filename, content_type |-> ctype,
                   file_size |-> md.file_size, width |-> md.width,
                   height |-> md.height, duration_ms |-> md.duration_ms],
     streams_file |-> FALSE,
     timeout  |-> 30]

\* Response.raise_for_status(): raises HTTPError for 4xx and 5xx
RaiseForStatus(status) == 400 <= status /\ status < 600

\* error_data.get("detail", default)
DetailOr(body, default) == IF "detail" \in body.keys THEN body.detail ELSE default

DefaultLimitDetail ==
    <<"F","i","l","e"," ","t","o","o"," ","l","a","r","g","e"," ","o","r"," ",
      "t","o","o"," ","l","o","n","g">>

DefaultMetadataDetail ==
    <<"I","n","v","a","l","i","d"," ","m","e","t","a","d","a","t","a">>

\* a list of required fields that forgets the method
required_fields_without_method == <<"video_id", "upload_url">>

required_fields == <<"video_id", "upload_url", "method">>

\* The first required field the response data lacks (0: none)
FirstMissing(body) ==
    IF \A i \in 1..Len(required_fields) : required_fields[i] \in body.keys
    THEN 0
    ELSE CHOOSE i \in 1..Len(required_fields) :
            /\ required_fields[i] \notin body.keys
            /\ \A j \in 1..(i - 1) : required_fields[j] \in body.keys

\* How get_upload_url_with_metadata ends on a response:
\*   "limit_duration", "limit_size", "invalid_metadata", "http_error",
\*   "missing_field": it prints and calls sys.exit(1);
\*   "raise": an exception that is no HTTPError leaves the function (the
\*            request raised, or resp.json() found no JSON);
\*   "ok": it returns (video_id, upload_url, method).
NegotiationOutcome(resp) ==
    IF resp.kind = "exception" THEN "raise"
    ELSE IF resp.status = 413 THEN
        IF ~resp.body.json THEN "raise"
        ELSE IF Contains(Lower(DetailOr(resp.body, DefaultLimitDetail)),
                         <<"d","u","r","a","t","i","o","n">>)
             THEN "limit_duration"
             ELSE "limit_size"
    ELSE IF resp.status = 400 THEN
        IF ~resp.body.json THEN "raise" ELSE "invalid_metadata"
    ELSE IF RaiseForStatus(resp.status) THEN "http_error"
    ELSE IF ~resp.body.json THEN "raise"
    ELSE IF FirstMissing(resp.body) # 0 THEN "missing_field"
    ELSE "ok"

\* The lines get_upload_url_with_metadata prints once the response is in
NegotiationLines(resp) ==
    LET o == NegotiationOutcome(resp)
        b == resp.body
    IN  CASE o = "limit_duration" ->
               <<SayText("exceeds_limits", DetailOr(b, DefaultLimitDetail)),
                 Say("max_duration_90_minutes")>>
          [] o = "limit_size" ->
               <<SayText("exceeds_limits", DetailOr(b, DefaultLimitDetail)),
                 Say("max_file_size_5GB")>>
          [] o = "invalid_metadata" ->
               <<SayText("invalid_metadata", DetailOr(b, DefaultMetadataDetail))>>
          [] o = "http_error" ->
               <<SayStatus("get_upload_url_failed", resp.status),
                 SayBody("response_text", b)>>
          [] o = "missing_field" ->
               <<SayText("missing_field", <<required_fields[FirstMissing(b)]>>),
                 SayBody("response_data", b)>>
          [] o = "ok" ->
               <<SayText("got_video_id", b.video_id),
                 SayText("upload_method", b.method)>>
          [] OTHER -> <<>>

\* The exception that leaves get_upload_url_with_metadata when it raises
NegotiationError(resp) ==
    IF resp.kind = "exception" THEN Error("request raised", 0)
    ELSE Error("response is not JSON", 0)


-----------------------------------------------------------------------------
(* upload_video_resumable *)

\* The branch taken on the method tag: requests.post or requests.put
TransferVerb(method) ==
    IF Upper(method) = <<"P","O","S","T">> THEN "POST" ELSE "PUT"

\* The headers dictionary the code builds for the branch
PassedHeaders(method, ctype, file_size) ==
    IF TransferVerb(method) = "POST"
    THEN ("x-goog-resumable" :> <<"s","t","a","r","t">>)
         @@ ("Content-Type" :> ctype)
         @@ ("Content-Length" :> Str(file_size))
    ELSE ("Content-Type" :> ctype)

\* What requests adds for a body given as an open file (data=f): the length
\* of the file as Content-Length, replacing one that was passed, or chunked
\* transfer encoding when the file is empty
StreamedBodyHeaders(body_size) ==
    IF body_size > 0
    THEN ("Content-Length" :> Str(body_size))
    ELSE ("Transfer-Encoding" :> <<"c","h","u","n","k","e","d">>)

\* storage headers built on the headers of the control-plane calls
TransferHeadersWithKey(method, ctype, file_size) ==
    ("Authorization" :> (<<"B","e","a","r","e","r"," ">> \o api_key))
    @@ ("Content-Type" :> ctype)

\* The headers of the storage request as it is sent: those the branch
\* passes, with what requests sets for the streamed file.  The library's
\* default headers (User-Agent, Accept, Accept-Encoding, Connection) are the
\* same on every request and are left out.
TransferHeaders(method, ctype, file_size) ==
    StreamedBodyHeaders(file.size) @@ PassedHeaders(method, ctype, file_size)

\* The storage request: the open file is the streamed body (data=f), no
\* multipart form is built
TransferRequest(upload_url, method, ctype, file_size) ==
    [endpoint |-> "storage",
     verb     |-> TransferVerb(method),
     url      |-> upload_url,
     path     |-> "",
     headers  |-> TransferHeaders(method, ctype, file_size),
     json     |-> [none |-> TRUE],
     streams_file |-> TRUE,
     timeout  |-> 1800]

\* a check that takes every status for a success
TransferSucceededAlways(status) == TRUE

\* a check that takes every 2xx status for a success
TransferSucceeded2xx(status) == 200 <= status /\ status < 300

\* upload_response.status_code in [200, 201, 204]
TransferSucceeded(status) == status \in {200, 201, 204}

\* The lines upload_video_resumable prints once the response is in
\* upload_video_resumable announcing the whole upload as complete
TransferLinesEarlySuccess(resp) ==
    IF resp.kind = "exception" THEN <<>>
    ELSE IF TransferSucceeded(resp.status)
         THEN <<Say("upload_successful"), Say("upload_complete")>>
    ELSE <<SayStatus("upload_failed_with_status", resp.status),
           SayBody("response_text", resp.body)>>

TransferLines(resp) ==
    IF resp.kind = "exception" THEN <<>>
    ELSE IF TransferSucceeded(resp.status) THEN <<Say("upload_successful")>>
    ELSE <<SayStatus("upload_failed_with_status", resp.status),
           SayBody("response_text", resp.body)>>

\* The exception that leaves upload_video_resumable (NoError: it returns)
TransferError(resp) ==
    IF resp.kind = "exception" THEN Error("request raised", 0)
    ELSE IF TransferSucceeded(resp.status) THEN NoError
    ELSE Error("Upload failed: HTTP", resp.status)

-----------------------------------------------------------------------------
(* finalize_upload *)

FinalizeRequest(base_url, key, video_id) ==
    [endpoint |-> "finalize_upload",
     verb     |-> "POST",
     url      |-> base_url,
     path     |-> "/videos/finalize_upload",
     headers  |-> ControlHeaders(key),
     json     |-> [video_id |-> video_id],
     streams_file |-> FALSE,
     timeout  |-> 30]

UnknownError == <<"U","n","k","n","o","w","n"," ","e","r","r","o","r">>

\* a check that takes every 2xx status for a success
FinalizeSucceeded2xx(status) == 200 <= status /\ status < 300

\* resp.status_code == 200
FinalizeSucceeded(status) == status = 200

\* The lines finalize_upload prints once the response is in
FinalizeLines(resp) ==
    IF resp.kind = "exception" THEN <<>>
    ELSE IF FinalizeSucceeded(resp.status) THEN <<Say("finalization_complete")>>
    ELSE IF resp.json_header /\ ~resp.body.json THEN <<>>
    ELSE <<SayText("finalization_failed",
                   DetailOr(IF resp.json_header THEN resp.body ELSE EmptyObject,
                            UnknownError))>>

\* The exception that leaves finalize_upload (NoError: it returns); none of
\* them is a requests.HTTPError, so its except clause never runs
FinalizeError(resp) ==
    IF resp.kind = "exception" THEN Error("request raised", 0)
    ELSE IF FinalizeSucceeded(resp.status) THEN NoError
    ELSE IF resp.json_header /\ ~resp.body.json THEN Error("response is not JSON", 0)
    ELSE Error("Finalization failed: HTTP", resp.status)

-----------------------------------------------------------------------------
(* main *)

\* main with steps 2 and 3 exchanged: finalize before the transfer
MainNextSwapped(stage) ==
    CASE stage = "probe"     -> "negotiate"
      [] stage = "negotiate" -> "finalize"
      [] stage = "finalize"  -> "transfer"
      [] stage = "transfer"  -> "done"

\* The statement of main's try block that follows a stage that returned
MainNext(stage) ==
    CASE stage = "probe"     -> "negotiate"
      [] stage = "negotiate" -> "transfer"
      [] stage = "transfer"  -> "finalize"
      [] stage = "finalize"  -> "done"

\* except Exception as e: print and sys.exit(1)
MainExcept(err) ==
    <<[tag |-> "upload_failed", status |-> err.status, text |-> <<err.what>>]>>

\* The lines main prints after finalize_upload returned
SuccessLines(video_id) ==
    <<Say("upload_complete"),
      SayText("video_id", video_id),
      Say("validation_passed_upfront"),
      Say("processing_complete"),
      SayText("chain_video_id", video_id)>>

\* Leave stage: go on with main, or finish with exit code 0 after the last
Continue(stage) ==
    /\ pc' = MainNext(stage)
    /\ completed' = Append(completed, stage)
    /\ exitCode' = IF MainNext(stage) = "done" THEN 0 ELSE exitCode

\* a failure handler that starts the negotiation again instead of exiting
Exit1Retry ==
    /\ pc' = "negotiate"
    /\ exitCode' = exitCode

\* sys.exit(1)
Exit1 ==
    /\ pc' = "done"
    /\ exitCode' = 1

Init ==
    /\ file \in Files
    /\ argKey \in ApiKeys
    /\ envKey \in ApiKeys
    /\ argType \in ContentTypeArgs
    /\ pc = "start"
    /\ api_key = <<>>
    /\ content_type = <<>>
    /\ metadata = NoMetadata
    /\ target = NoTarget
    /\ fileOpen = FALSE
    /\ requests = <<>>
    /\ responses = <<>>
    /\ stages = <<>>
    /\ completed = <<>>
    /\ out = <<>>
    /\ exitCode = -1
    /\ NotUploadIdle

\* main, lines 245-248: os.path.isfile
ValidateFile ==
    /\ pc = "start"
    /\ IF file.exists
       THEN /\ pc' = "resolve"
            /\ UNCHANGED <<out, exitCode>>
       ELSE /\ out' = Append(out, Say("file_not_found"))
            /\ Exit1
    /\ UNCHANGED <<responses, file, argKey, envKey, argType, api_key, content_type,
                   metadata, target, fileOpen, requests, stages, completed>>
    /\ UNCHANGED NotUpload

\* main, lines 250-252: the API key, the file name and the content type
ResolveKey ==
    /\ pc = "resolve"
    /\ LET r == resolve_api_key(argKey, envKey)
       IN  IF r = "ok"
           THEN /\ api_key' = KeyOrEnv(argKey, envKey)
                /\ content_type' = determine_content_type(file.path, argType)
                /\ pc' = "probe"
                /\ UNCHANGED <<out, exitCode>>
           ELSE /\ out' = Append(out, Say(r))
                /\ Exit1
                /\ UNCHANGED <<api_key, content_type>>
    /\ UNCHANGED <<responses, file, argKey, envKey, argType, metadata, target, fileOpen,
                   requests, stages, completed>>
    /\ UNCHANGED NotUpload

\* get_video_metadata up to the with statement: the clip is opened, or
\* VideoFileClip raises and the except clause exits
OpenClip ==
    /\ pc = "probe"
    /\ stages' = Append(stages, "probe")
    /\ IF ClipOpens(file)
       THEN /\ out' = Append(out, Say("extracting_metadata"))
            /\ fileOpen' = TRUE
            /\ pc' = "probe_read"
            /\ UNCHANGED exitCode
       ELSE /\ out' = out \o <<Say("extracting_metadata"),
                               Say("metadata_failed"),
                               Say("install_moviepy")>>
            /\ Exit1
            /\ UNCHANGED fileOpen
    /\ UNCHANGED <<responses, file, argKey, envKey, argType, api_key, content_type,
                   metadata, target, requests, completed>>
    /\ UNCHANGED NotUpload

\* get_video_metadata from the body of the with statement on: the metadata
\* is read and the clip is closed; the except clause exits
GetVideoMetadata ==
    /\ pc = "probe_read"
    /\ fileOpen' = WithExit(~ProbeReturns(file))
    /\ IF ProbeReturns(file)
       THEN /\ metadata' = ProbedMetadata(file)
            /\ out' = out \o <<Say("resolution"),
                               Say("duration"),
                               Say("file_size")>>
            /\ Continue("probe")
       ELSE /\ out' = out \o <<Say("metadata_failed"),
                               Say("install_moviepy")>>
            /\ Exit1
            /\ UNCHANGED <<metadata, completed>>
    /\ UNCHANGED <<responses, file, argKey, envKey, argType, api_key, content_type,
                   target, requests, stages>>
    /\ UNCHANGED NotUpload


\* get_upload_url_with_metadata up to requests.post: the request is sent
NegotiateSend ==
    /\ pc = "negotiate"
    /\ stages' = Append(stages, "negotiate")
    /\ out' = Append(out, Say("step1_getting_upload_url"))
    /\ requests' = Append(requests,
                          NegotiationRequest(DEFAULT_BASE_URL, api_key,
                                             Basename(file.path), content_type,
                                             metadata))
    /\ pc' = "negotiate_wait"
    /\ UNCHANGED <<responses, file, argKey, envKey, argType, api_key, content_type,
                   metadata, target, fileOpen, completed, exitCode>>
    /\ UNCHANGED NotUpload

\* get_upload_url_with_metadata from the response on, and main's handler
NegotiateRecv(resp) ==
    /\ pc = "negotiate_wait"
    /\ responses' = Append(responses, resp)
    /\ LET o == NegotiationOutcome(resp)
       IN  CASE o = "ok" ->
                  /\ target' = [video_id |-> resp.body.video_id,
                                upload_url |-> resp.body.upload_url,
                                method |-> resp.body.method]
                  /\ out' = out \o NegotiationLines(resp)
                  /\ Continue("negotiate")
             [] o = "raise" ->
                  /\ out' = out \o MainExcept(NegotiationError(resp))
                  /\ Exit1
                  /\ UNCHANGED <<target, completed>>
             [] OTHER ->
                  /\ out' = out \o NegotiationLines(resp)
                  /\ Exit1
                  /\ UNCHANGED <<target, completed>>
    /\ UNCHANGED <<file, argKey, envKey, argType, api_key, content_type,
                   metadata, fileOpen, requests, stages>>
    /\ UNCHANGED NotUpload

\* upload_video_resumable up to the storage request: the file is opened and
\* the request is sent with the file as its body
TransferSend ==
    /\ pc = "transfer"
    /\ stages' = Append(stages, "transfer")
    /\ out' = out \o <<Say("step2_uploading"), Say("uploading_mb")>>
    /\ fileOpen' = TRUE
    /\ requests' = Append(requests,
                          TransferRequest(target.upload_url, target.method,
                                          content_type, metadata.file_size))
    /\ pc' = "transfer_wait"
    /\ UNCHANGED <<responses, file, argKey, envKey, argType, api_key, content_type,
                   metadata, target, completed, exitCode>>
    /\ UNCHANGED NotUpload

\* upload_video_resumable from the response on: the with block closes the
\* file, the status is checked; and main's handler
TransferRecv(resp) ==
    /\ pc = "transfer_wait"
    /\ responses' = Append(responses, resp)
    /\ fileOpen' = WithExit(resp.kind = "exception")
    /\ IF TransferError(resp) = NoError
       THEN /\ out' = out \o TransferLines(resp)
            /\ Continue("transfer")
       ELSE /\ out' = out \o TransferLines(resp) \o MainExcept(TransferError(resp))
            /\ Exit1
            /\ UNCHANGED completed
    /\ UNCHANGED <<file, argKey, envKey, argType, api_key, content_type,
                   metadata, target, requests, stages>>
    /\ UNCHANGED NotUpload

\* finalize_upload up to requests.post: the request is sent
FinalizeSend ==
    /\ pc = "finalize"
    /\ stages' = Append(stages, "finalize")
    /\ out' = Append(out, Say("step3_finalizing"))
    /\ requests' = Append(requests,
                          FinalizeRequest(DEFAULT_BASE_URL, api_key, target.video_id))
    /\ pc' = "finalize_wait"
    /\ UNCHANGED <<responses, file, argKey, envKey, argType, api_key, content_type,
                   metadata, target, fileOpen, completed, exitCode>>
    /\ UNCHANGED NotUpload

\* finalize_upload from the response on, then the rest of main's try block
\* or main's handler
FinalizeRecv(resp) ==
    /\ pc = "finalize_wait"
    /\ responses' = Append(responses, resp)
    /\ IF FinalizeError(resp) = NoError
       THEN /\ out' = out \o FinalizeLines(resp)
                      \o (IF MainNext("finalize") = "done"
                          THEN SuccessLines(target.video_id) ELSE <<>>)
            /\ Continue("finalize")
       ELSE /\ out' = out \o FinalizeLines(resp) \o MainExcept(FinalizeError(resp))
            /\ Exit1
            /\ UNCHANGED completed
    /\ UNCHANGED <<file, argKey, envKey, argType, api_key, content_type,
                   metadata, target, fileOpen, requests, stages>>
    /\ UNCHANGED NotUpload

Next ==
    \/ ValidateFile
    \/ ResolveKey
    \/ OpenClip
    \/ GetVideoMetadata
    \/ NegotiateSend
    \/ \E resp \in NegotiationResponses : NegotiateRecv(resp)
    \/ TransferSend
    \/ \E resp \in StorageResponses : TransferRecv(resp)
    \/ FinalizeSend
    \/ \E resp \in FinalizeResponses : FinalizeRecv(resp)

Spec == Init /\ [][Next]_vars

\* The invocation is one sequential process and every request carries a
\* timeout (30 s, 1800 s, 30 s), so each call returns or raises and the next
\* statement runs: a step that can be taken is eventually taken
FairSpec == Spec /\ WF_vars(Next)

-----------------------------------------------------------------------------
(* determine_content_type on its own *)

TypeOctetStream ==
    <<"a","p","p","l","i","c","a","t","i","o","n","/",
      "o","c","t","e","t","-","s","t","r","e","a","m">>

\* The values of --content-type: absent, and two explicit types
ExplicitTypes == {<<>>, TypeCustom, TypeOctetStream}

\* Paths given as --file, each with its extension in lower case as
\* os.path.splitext(path)[1].lower() gives it
PathsAndExtensions == {
    << <<"/","v","/","a",".","m","p","4">>, <<".","m","p","4">> >>,
    << <<"/","v","/","a",".","M","P","4">>, <<".","m","p","4">> >>,
    << <<"/","v","/","a",".","M","p","4">>, <<".","m","p","4">> >>,
    << <<"/","v","/","b",".","m","o","v">>, <<".","m","o","v">> >>,
    << <<"/","v","/","b",".","M","O","V">>, <<".","m","o","v">> >>,
    << <<"/","v","/","c",".","a","v","i">>, <<".","a","v","i">> >>,
    << <<"/","v","/","c",".","A","v","i">>, <<".","a","v","i">> >>,
    << <<"/","v","/","d",".","w","e","b","m">>, <<".","w","e","b","m">> >>,
    << <<"/","v","/","d",".","W","E","B","M">>, <<".","w","e","b","m">> >>,
    << <<"/","v","/","e",".","m","k","v">>, <<".","m","k","v">> >>,
    << <<"/","v","/","e",".","M","K","V">>, <<".","m","k","v">> >>,
    << <<"/","v","/","f",".","m","4","v">>, <<".","m","4","v">> >>,
    << <<"/","v","/","f",".","M","4","V">>, <<".","m","4","v">> >>,
    << <<"/","v","/","n",".","t","x","t">>, <<".","t","x","t">> >>,
    << <<"/","v","/","a",".","m","p","4",".","b","a","k">>, <<".","b","a","k">> >>,
    << <<"/","v","/","n","o","e","x","t">>, <<>> >>,
    << <<"/","v","/",".","m","p","4">>, <<>> >>,
    << <<"/","d",".","m","o","v","/","x">>, <<>> >>,
    << <<"/","v","/","a",".">>, <<".">> >>,
    << <<"/","v","/","a",".","m","p">>, <<".","m","p">> >>,
    << <<"/","v","/","a",".","m","p","4","4">>, <<".","m","p","4","4">> >>,
    << <<"/","v","/","g",".","o","g","g">>, <<".","o","g","g">> >>,
    << <<"/","v","/","a",".","m","o","v",".","m","p","4">>, <<".","m","p","4">> >>}

\* main, lines 240-243: the arguments of one call of determine_content_type
ContentTypeInit ==
    /\ \E row \in PathsAndExtensions :
          file = [path |-> row[1], exists |-> TRUE, decodable |-> TRUE,
                  size |-> 1, width |-> 1920, height |-> 1080,
                  duration_ms |-> DurationLimitMs]
    /\ argType \in ExplicitTypes
    /\ argKey = KeyGood
    /\ envKey = <<>>
    /\ pc = "type"
    /\ api_key = <<>>
    /\ content_type = <<>>
    /\ metadata = NoMetadata
    /\ target = NoTarget
    /\ fileOpen = FALSE
    /\ requests = <<>>
    /\ responses = <<>>
    /\ stages = <<>>
    /\ completed = <<>>
    /\ out = <<>>
    /\ exitCode = -1
    /\ NotUploadIdle

\* main, line 252: content_type = determine_content_type(args.file, ...)
ResolveContentType ==
    /\ pc = "type"
    /\ content_type' = determine_content_type(file.path, argType)
    /\ pc' = "typed"
    /\ UNCHANGED <<file, argKey, envKey, argType, api_key, metadata, target,
                   fileOpen, requests, responses, stages, completed, out, exitCode>>
    /\ UNCHANGED NotUpload

ContentTypeNext == ResolveContentType

ContentTypeSpec == ContentTypeInit /\ [][ContentTypeNext]_vars


-----------------------------------------------------------------------------
(* webhook_listener.py: api-call and youtube-automation *)

\* upload_video.py does not run
UploadIdle ==
    /\ file = [path |-> PathTxt, exists |-> FALSE, decodable |-> FALSE,
               size |-> 0, width |-> 0, height |-> 0, duration_ms |-> 0]
    /\ argKey = <<>>
    /\ envKey = <<>>
    /\ argType = <<>>
    /\ pc = "none"
    /\ api_key = <<>>
    /\ content_type = <<>>
    /\ metadata = NoMetadata
    /\ target = NoTarget
    /\ fileOpen = FALSE
    /\ requests = <<>>
    /\ responses = <<>>
    /\ stages = <<>>
    /\ completed = <<>>
    /\ out = <<>>
    /\ exitCode = -1

NotListenerIdle == UploadIdle /\ TriggerIdle /\ StatusIdle /\ AuthIdle

MAX_HISTORY == 100

\* JSON values as far as the handlers look at them: the type, whether the
\* value is empty, and which payload it is
EventObject(id) == [type |-> "object", size |-> 1, id |-> id]

EmptyObjectValue == [type |-> "object", size |-> 0, id |-> 0]

EmptyArrayValue == [type |-> "array", size |-> 0, id |-> 0]

ArrayValue == [type |-> "array", size |-> 1, id |-> 0]

JsonBody(v) == [declared_json |-> TRUE, content |-> "json", value |-> v]

\* The bodies of webhook POSTs: JSON values declared as JSON, a missing or
\* malformed body declared as JSON, and a body with no JSON content type
WebhookBodies ==
    {JsonBody(v) : v \in {EventObject(1), EmptyObjectValue, EmptyArrayValue,
                          ArrayValue, NoneValue}}
    \cup {[declared_json |-> TRUE, content |-> c, value |-> NoneValue] :
             c \in {"missing", "malformed"}}
    \cup {NoBody}

\* The values of the X-Mosaic-Signature header
Signatures == {NoHeader, "", "s1", "s2"}

\* request.get_json(): the value, None, or an exception (BadRequest for a
\* JSON body that does not parse, UnsupportedMediaType for a body that is
\* not declared JSON in Flask 2.1 and later)
GetJson(body) ==
    IF ~body.declared_json
    THEN [raised |-> ~mimetypeGivesNone, data |-> NoneValue]
    ELSE IF body.content # "json"
         THEN [raised |-> TRUE, data |-> NoneValue]
         ELSE [raised |-> FALSE, data |-> body.value]

\* Python's truth value of a JSON value
Truthy(v) == v.type # "none" /\ v.size > 0

\* format_event / format_webhook call data.get: AttributeError for a value
\* that is no object
FormatRaises(data) == data.type # "object"

\* app.config.get('WEBHOOK_SECRET') or os.environ.get('MOSAIC_WEBHOOK_SECRET')
ExpectedSecret == IF flagSecret # "" THEN flagSecret ELSE envSecret

\* secret_valid of handle_webhook
SecretValid(expected, received) ==
    IF expected = "" THEN TRUE
    ELSE IF received \in {NoHeader, ""} THEN FALSE
    ELSE received = expected

\* The entry appended to the history (the timestamp is left out)
Entry(h) ==
    IF listener = "api-call"
    THEN [path |-> "/webhook", token |-> NoHeader, data |-> h.data]
    ELSE [path |-> "/webhook", token |-> NoHeader,
          webhook_secret |-> h.signature, data |-> h.data]

\* a check that lets the history grow by one more entry
HistoryOverOffByOne(history) == Len(history) > MAX_HISTORY + 1

\* len(webhook_history) > MAX_HISTORY
HistoryOver(history) == Len(history) > MAX_HISTORY

\* a pop() that drops the newest entry
PopLast(history) == SubSeq(history, 1, Len(history) - 1)

\* webhook_history.pop(0)
PopFirst(history) == Tail(history)

\* webhook_history[-10:]
LastTen(history) ==
    IF Len(history) <= 10 THEN history
    ELSE SubSeq(history, Len(history) - 9, Len(history))

\* len(webhook_history), reported as the webhooks received
ReceivedCount(history) == Len(history)

\* The status the handler answers with after the entry is stored
FinalStatus(h) ==
    IF FormatRaises(h.data) THEN 500
    ELSE IF listener = "api-call" /\ ~h.secret_valid THEN 401
    ELSE 200

\* A webhook POST arrives and a request thread takes it
Receive(t, body, signature) ==
    /\ listener # "none"
    /\ ~stopped.is
    /\ handler[t].pc \in {"idle", "returned"}
    /\ handler' = [handler EXCEPT ![t] =
                     [IdleHandler EXCEPT !.pc = "parse", !.body = body,
                                         !.signature = signature]]
    /\ posted' = posted + 1
    /\ UNCHANGED <<listener, flagSecret, envSecret, mimetypeGivesNone,
                   webhook_history, accepted, reply, stopped>>
    /\ UNCHANGED NotListener

\* handle_webhook lines 109-131, webhook lines 213-217: the secret is
\* validated (api-call), the body is parsed and an empty one is refused
Parse(t) ==
    /\ ~stopped.is
    /\ handler[t].pc = "parse"
    /\ LET h == handler[t]
           r == GetJson(h.body)
       IN  handler' = [handler EXCEPT ![t] =
               IF r.raised THEN [h EXCEPT !.pc = "returned", !.status = 500]
               ELSE IF ~Truthy(r.data) THEN [h EXCEPT !.pc = "returned", !.status = 400]
               ELSE [h EXCEPT !.pc = "append", !.data = r.data,
                              !.secret_valid =
                                 IF listener = "api-call"
                                 THEN SecretValid(ExpectedSecret, h.signature)
                                 ELSE TRUE]]
    /\ UNCHANGED <<listener, flagSecret, envSecret, mimetypeGivesNone,
                   webhook_history, posted, accepted, reply, stopped>>
    /\ UNCHANGED NotListener

\* webhook_history.append(entry)
AppendEntry(t) ==
    /\ ~stopped.is
    /\ handler[t].pc = "append"
    /\ webhook_history' = Append(webhook_history, Entry(handler[t]))
    /\ accepted' = accepted + 1
    /\ handler' = [handler EXCEPT ![t].pc = "check"]
    /\ UNCHANGED <<listener, flagSecret, envSecret, mimetypeGivesNone,
                   posted, reply, stopped>>
    /\ UNCHANGED NotListener

\* if len(webhook_history) > MAX_HISTORY
CheckHistory(t) ==
    /\ ~stopped.is
    /\ handler[t].pc = "check"
    /\ handler' = [handler EXCEPT ![t].pc =
                     IF HistoryOver(webhook_history) THEN "pop" ELSE "display"]
    /\ UNCHANGED <<listener, flagSecret, envSecret, mimetypeGivesNone,
                   webhook_history, posted, accepted, reply, stopped>>
    /\ UNCHANGED NotListener

\* webhook_history.pop(0)
PopOldest(t) ==
    /\ ~stopped.is
    /\ handler[t].pc = "pop"
    /\ webhook_history' = PopFirst(webhook_history)
    /\ handler' = [handler EXCEPT ![t].pc = "display"]
    /\ UNCHANGED <<listener, flagSecret, envSecret, mimetypeGivesNone,
                   posted, accepted, reply, stopped>>
    /\ UNCHANGED NotListener

\* The payload is printed and the handler answers: 500 from the except
\* clause when printing raised, else 401 or 200
Respond(t) ==
    /\ ~stopped.is
    /\ handler[t].pc = "display"
    /\ handler' = [handler EXCEPT ![t].pc = "returned",
                                  ![t].status = FinalStatus(handler[t])]
    /\ UNCHANGED <<listener, flagSecret, envSecret, mimetypeGivesNone,
                   webhook_history, posted, accepted, reply, stopped>>
    /\ UNCHANGED NotListener

\* home(): GET /
GetHome ==
    /\ listener # "none"
    /\ ~stopped.is
    /\ reply' = [kind |-> "home",
                 webhooks_received |-> ReceivedCount(webhook_history)]
    /\ UNCHANGED <<listener, flagSecret, envSecret, mimetypeGivesNone,
                   webhook_history, handler, posted, accepted, stopped>>
    /\ UNCHANGED NotListener

\* history(): GET /history
GetHistory ==
    /\ listener # "none"
    /\ ~stopped.is
    /\ reply' = [kind |-> "history", total |-> Len(webhook_history),
                 history |-> LastTen(webhook_history)]
    /\ UNCHANGED <<listener, flagSecret, envSecret, mimetypeGivesNone,
                   webhook_history, handler, posted, accepted, stopped>>
    /\ UNCHANGED NotListener

\* Ctrl+C.  Where the KeyboardInterrupt lands decides: inside werkzeug's
\* serve_forever it is caught there (swallowed), app.run returns and main
\* ends without a line; anywhere else in app.run (before the server runs,
\* while it is closed) it leaves app.run, and main of youtube-automation
\* prints the total in its except clause.  main of api-call has no such
\* clause and prints no total either way.
Interrupt(swallowed) ==
    /\ listener # "none"
    /\ ~stopped.is
    /\ stopped' =
          IF listener = "youtube-automation" /\ ~swallowed
          THEN [is |-> TRUE, printed |-> TRUE,
                total |-> ReceivedCount(webhook_history)]
          ELSE [is |-> TRUE, printed |-> FALSE, total |-> 0]
    /\ UNCHANGED <<listener, flagSecret, envSecret, mimetypeGivesNone,
                   webhook_history, handler, posted, accepted, reply>>
    /\ UNCHANGED NotListener

\* app.run raises before the server accepts a request (the port is taken):
\* main of youtube-automation logs the failure in its except Exception clause
\* and exits with code 1, main of api-call ends with the traceback; no total
\* is printed
StartFailure ==
    /\ listener # "none"
    /\ ~stopped.is
    /\ posted = 0
    /\ stopped' = [is |-> TRUE, printed |-> FALSE, total |-> 0]
    /\ UNCHANGED <<listener, flagSecret, envSecret, mimetypeGivesNone,
                   webhook_history, handler, posted, accepted, reply>>
    /\ UNCHANGED NotListener

\* No request thread is inside a handler
NoHandlerActive == \A t \in Threads : handler[t].pc \in {"idle", "returned"}

\* The listener after main reached app.run: the secrets as given; the
\* youtube-automation listener has no --webhook-secret
ListenerInit ==
    /\ NotListenerIdle
    /\ listener \in {"api-call", "youtube-automation"}
    /\ flagSecret \in (IF listener = "api-call" THEN {"", "s1"} ELSE {""})
    /\ envSecret \in {"", "s2"}
    /\ mimetypeGivesNone \in BOOLEAN
    /\ webhook_history = <<>>
    /\ handler = [t \in Threads |-> IdleHandler]
    /\ posted = 0
    /\ accepted = 0
    /\ reply = NoReply
    /\ stopped = Running

\* Requests of every kind, handled by threads that interleave.  With at most
\* MaxPosts requests the history stays below MAX_HISTORY, CheckHistory never
\* sends a handler to the eviction, and PopOldest has no step to take here:
\* the runs that evict are those of ConcurrentNext and SequentialNext.
ListenerNext ==
    \/ \E t \in Threads, body \in WebhookBodies, signature \in Signatures :
          posted < MaxPosts /\ Receive(t, body, signature)
    \/ \E t \in Threads : Parse(t)
    \/ \E t \in Threads : AppendEntry(t)
    \/ \E t \in Threads : CheckHistory(t)
    \/ \E t \in Threads : Respond(t)

ListenerSpec == ListenerInit /\ [][ListenerNext]_vars

\* The listener with no secret configured
HistoryInit ==
    /\ ListenerInit
    /\ flagSecret = ""
    /\ envSecret = ""
    /\ mimetypeGivesNone = FALSE

\* Every POST carries the same event; the handlers interleave
ConcurrentNext ==
    \/ \E t \in Threads :
          posted < MaxWebhooks
          /\ Receive(t, JsonBody(EventObject(1)), NoHeader)
    \/ \E t \in Threads : Parse(t)
    \/ \E t \in Threads : AppendEntry(t)
    \/ \E t \in Threads : CheckHistory(t)
    \/ \E t \in Threads : PopOldest(t)
    \/ \E t \in Threads : Respond(t)

ConcurrentSpec == HistoryInit /\ [][ConcurrentNext]_vars

\* The k-th POST carries event k; every request, POST or GET, is handled
\* after the one before it returned, so that one thread stands for all
SequentialNext ==
    \/ /\ posted < MaxWebhooks
       /\ NoHandlerActive
       /\ Receive(1, JsonBody(EventObject(posted + 1)), NoHeader)
    \/ \E t \in Threads : Parse(t)
    \/ \E t \in Threads : AppendEntry(t)
    \/ \E t \in Threads : CheckHistory(t)
    \/ \E t \in Threads : PopOldest(t)
    \/ \E t \in Threads : Respond(t)
    \/ NoHandlerActive /\ GetHome
    \/ NoHandlerActive /\ GetHistory
    \/ NoHandlerActive /\ \E swallowed \in BOOLEAN : Interrupt(swallowed)
    \/ StartFailure

SequentialSpec == HistoryInit /\ [][SequentialNext]_vars

-----------------------------------------------------------------------------
(* Properties *)

StageOrder == <<"probe", "negotiate", "transfer", "finalize">>

EndpointOrder == <<"get_upload_url", "storage", "finalize_upload">>

IsPrefix(s, t) == Len(s) <= Len(t) /\ \A i \in 1..Len(s) : s[i] = t[i]

Endpoints == [i \in 1..Len(requests) |-> requests[i].endpoint]

\* The number of requests sent to an endpoint
Sent(endpoint) == Cardinality({i \in 1..Len(requests) : requests[i].endpoint = endpoint})

\* The response to the request sent to an endpoint was received
Answered(endpoint) ==
    \E i \in 1..Len(responses) : requests[i].endpoint = endpoint

\* The response to the (first) request sent to an endpoint
ResponseOf(endpoint) ==
    responses[CHOOSE i \in 1..Len(responses) : requests[i].endpoint = endpoint]

Is2xx(status) == 200 <= status /\ status < 300

Printed(tag) == \E i \in 1..Len(out) : out[i].tag = tag

\* C1: the stages are entered in the order probe, negotiate, transfer,
\* finalize, each at most once and none after a later one; a stage is
\* entered only when every stage before it has returned normally; and the
\* requests go out in the same order, get_upload_url, storage,
\* finalize_upload, one per stage entered.
C1_StagesInFixedOrder ==
    /\ IsPrefix(stages, StageOrder)
    /\ IsPrefix(completed, stages)
    /\ Len(completed) >= Len(stages) - 1
    /\ IsPrefix(Endpoints, EndpointOrder)
    /\ Len(requests) = IF stages = <<>> THEN 0 ELSE Len(stages) - 1

\* C1 witness: an invocation that ran all four stages to the end
C1_Witness ==
    /\ pc = "done"
    /\ exitCode = 0
    /\ stages = StageOrder
    /\ completed = StageOrder

\* A negotiation that was rejected (400, 413) or failed: the request raised,
\* the status is 4xx or 5xx, or the answer holds no complete target.
NegotiationFailed ==
    /\ Answered("get_upload_url")
    /\ LET r == ResponseOf("get_upload_url")
       IN  \/ r.kind = "exception"
           \/ r.status >= 400
           \/ ~r.body.json
           \/ ~(TargetKeys \subseteq r.body.keys)

\* A transfer that failed: the request raised or the status is no success
TransferFailed ==
    /\ Answered("storage")
    /\ LET r == ResponseOf("storage")
       IN  r.kind = "exception" \/ r.status \notin {200, 201, 204}

\* C2: after a negotiation that is rejected or fails the storage endpoint
\* and finalize receive no request, and after a transfer that fails
\* finalize receives no request; the invocation ends with exit code 1.
C2_FailureShortCircuits ==
    /\ NegotiationFailed =>
         /\ Sent("storage") = 0
         /\ Sent("finalize_upload") = 0
         /\ pc = "done" /\ exitCode = 1
    /\ TransferFailed =>
         /\ Sent("finalize_upload") = 0
         /\ pc = "done" /\ exitCode = 1

\* C2 witness: a transfer that failed after a negotiation that succeeded
C2_Witness ==
    /\ TransferFailed
    /\ ResponseOf("storage").kind = "response"
    /\ pc = "done"

\* C3: a request is sent only for a file that exists and was probed as a
\* video: the existence check passed and the probe returned the metadata
\* before the first request; for any other file no request is ever sent.
C3_NoRequestBeforeProbe ==
    /\ requests # <<>> =>
         /\ file.exists
         /\ file.decodable
         /\ file.duration_ms # NoDuration
         /\ completed # <<>> /\ completed[1] = "probe"
         /\ metadata = ProbedMetadata(file)
    /\ (~file.exists \/ ~file.decodable \/ file.duration_ms = NoDuration) =>
         requests = <<>>

\* C3 witness: a file that exists and is no video, after the probe gave up
C3_Witness ==
    /\ file.exists
    /\ ~file.decodable
    /\ stages = <<"probe">>
    /\ pc = "done"
    /\ exitCode = 1


\* The rejection payload mentions duration: it is a JSON object whose detail
\* contains the word, in any letter case
MentionsDuration(body) ==
    /\ body.json
    /\ "detail" \in body.keys
    /\ Contains(Lower(body.detail), <<"d","u","r","a","t","i","o","n">>)

\* The invocation ended without a transfer or finalize call, and with no
\* line of a transport failure
RejectedBeforeTransfer ==
    /\ pc = "done"
    /\ exitCode = 1
    /\ Sent("storage") = 0
    /\ Sent("finalize_upload") = 0
    /\ ~Printed("upload_failed")
    /\ ~Printed("get_upload_url_failed")

\* C4: a negotiation answer with status 413 is reported as a duration limit
\* when its payload detail mentions duration and as a size limit for any
\* other or absent detail, an answer with status 400 as invalid metadata;
\* each is terminal, is not reported as a transport failure, and no
\* transfer or finalize call follows.
C4_RejectionClassified ==
    (Answered("get_upload_url") /\ ResponseOf("get_upload_url").kind = "response") =>
        LET r == ResponseOf("get_upload_url")
        IN  /\ (r.status = 413 /\ MentionsDuration(r.body)) =>
                 /\ Printed("max_duration_90_minutes")
                 /\ ~Printed("max_file_size_5GB")
                 /\ RejectedBeforeTransfer
            /\ (r.status = 413 /\ ~MentionsDuration(r.body)) =>
                 /\ Printed("max_file_size_5GB")
                 /\ ~Printed("max_duration_90_minutes")
                 /\ RejectedBeforeTransfer
            /\ r.status = 400 =>
                 /\ Printed("invalid_metadata")
                 /\ RejectedBeforeTransfer

\* C5: for a video longer than 90 minutes the storage endpoint receives no
\* request, whatever the server answers to the negotiation.
C5_OverlongNeverTransferred ==
    metadata.duration_ms > DurationLimitMs => Sent("storage") = 0

\* C6: a negotiation response whose status is not 2xx and is neither 400
\* nor 413 ends the invocation with the failure line that shows the status
\* and the line that shows the raw body; it never yields an upload target.
C6_OtherStatusIsTransportFailure ==
    (/\ Answered("get_upload_url")
     /\ ResponseOf("get_upload_url").kind = "response"
     /\ ~Is2xx(ResponseOf("get_upload_url").status)
     /\ ResponseOf("get_upload_url").status \notin {400, 413}) =>
        LET r == ResponseOf("get_upload_url")
        IN  /\ pc = "done"
            /\ exitCode = 1
            /\ \E i \in 1..Len(out) :
                 out[i].tag = "get_upload_url_failed" /\ out[i].status = r.status
            /\ \E i \in 1..Len(out) :
                 out[i].tag = "response_text" /\ out[i].body = r.body
            /\ target = NoTarget
            /\ Sent("storage") = 0

\* C7: a 2xx negotiation response that lacks video_id, upload_url or method
\* (or is no JSON at all) ends the invocation with exit code 1 and no
\* storage request; whenever a storage request was sent, the negotiation
\* response held all three fields and the target is made of them.
C7_IncompleteTargetFails ==
    /\ (/\ Answered("get_upload_url")
        /\ ResponseOf("get_upload_url").kind = "response"
        /\ Is2xx(ResponseOf("get_upload_url").status)
        /\ \/ ~ResponseOf("get_upload_url").body.json
           \/ ~(TargetKeys \subseteq ResponseOf("get_upload_url").body.keys)) =>
          /\ pc = "done"
          /\ exitCode = 1
          /\ ResponseOf("get_upload_url").body.json => Printed("missing_field")
          /\ target = NoTarget
          /\ Sent("storage") = 0
    /\ Sent("storage") > 0 =>
          LET b == ResponseOf("get_upload_url").body
          IN  /\ b.json
              /\ TargetKeys \subseteq b.keys
              /\ target = [video_id |-> b.video_id, upload_url |-> b.upload_url,
                           method |-> b.method]

\* C7 witness: a 200 response that lacks only the method
C7_Witness ==
    /\ Answered("get_upload_url")
    /\ ResponseOf("get_upload_url").kind = "response"
    /\ ResponseOf("get_upload_url").status = 200
    /\ ResponseOf("get_upload_url").body.json
    /\ ResponseOf("get_upload_url").body.keys = {"video_id", "upload_url"}
    /\ pc = "done"

\* C8: the storage response is taken for a success exactly when its status
\* is 200, 201 or 204; with any other status the invocation ends as a
\* transfer failure that shows the status; finalize is called only after a
\* storage response with one of the three statuses.
C8_TransferSuccessStatuses ==
    /\ (Answered("storage") /\ ResponseOf("storage").kind = "response") =>
          LET r == ResponseOf("storage")
          IN  IF r.status \in {200, 201, 204}
              THEN /\ Len(completed) >= 3 /\ completed[3] = "transfer"
                   /\ Printed("upload_successful")
                   /\ ~Printed("upload_failed_with_status")
              ELSE /\ pc = "done"
                   /\ exitCode = 1
                   /\ ~Printed("upload_successful")
                   /\ \E i \in 1..Len(out) :
                        out[i].tag = "upload_failed_with_status" /\ out[i].status = r.status
                   /\ \E i \in 1..Len(out) :
                        /\ out[i].tag = "upload_failed"
                        /\ out[i].text = <<"Upload failed: HTTP">>
                        /\ out[i].status = r.status
                   /\ Sent("finalize_upload") = 0
    /\ Sent("finalize_upload") > 0 =>
          /\ Answered("storage")
          /\ ResponseOf("storage").kind = "response"
          /\ ResponseOf("storage").status \in {200, 201, 204}

\* C8 witness: finalize called after the storage answered 204
C8_Witness ==
    /\ Sent("finalize_upload") = 1
    /\ ResponseOf("storage").status = 204

HasHeader(req, name, value) ==
    name \in DOMAIN req.headers /\ req.headers[name] = value

\* C9: every storage request, for the tag POST or PUT, declares a
\* Content-Length equal to the probed byte size and carries the
\* resumable-session marker header.
C9_EveryTransferDeclaresLength ==
    \A i \in 1..Len(requests) :
        requests[i].endpoint = "storage" =>
            /\ HasHeader(requests[i], "Content-Length", Str(file.size))
            /\ HasHeader(requests[i], "x-goog-resumable", <<"s","t","a","r","t">>)

\* C10: each of the three method tags selects its own branch: a resumable
\* POST tag a streamed POST, a resumable PUT tag a streamed PUT, and the
\* signed-form tag never a streamed (resumable) request.
C10_TagSelectsOwnBranch ==
    \A i \in 1..Len(requests) :
        requests[i].endpoint = "storage" =>
            /\ target.method \in {MethodPOST, MethodPost} =>
                 requests[i].verb = "POST" /\ requests[i].streams_file
            /\ target.method = MethodPUT =>
                 requests[i].verb = "PUT" /\ requests[i].streams_file
            /\ target.method = MethodForm => ~requests[i].streams_file


\* The negotiation was answered, not with a 4xx or 5xx status, by a JSON
\* object that holds video_id, upload_url and method
NegotiationReturnedTarget ==
    /\ Answered("get_upload_url")
    /\ LET r == ResponseOf("get_upload_url")
       IN  /\ r.kind = "response"
           /\ r.status < 400
           /\ r.body.json
           /\ TargetKeys \subseteq r.body.keys

\* The storage answered with a success status
TransferReturnedSuccess ==
    /\ Answered("storage")
    /\ ResponseOf("storage").kind = "response"
    /\ ResponseOf("storage").status \in {200, 201, 204}

\* finalize_upload was answered HTTP 200
FinalizeReturned200 ==
    /\ Answered("finalize_upload")
    /\ ResponseOf("finalize_upload").kind = "response"
    /\ ResponseOf("finalize_upload").status = 200

\* C11: the invocation ends in success (exit code 0, "Upload complete")
\* if and only if the negotiation returned a complete target, the storage
\* answered a success status and finalize answered 200; the video id it
\* reports, on the "Video ID" line and on the last line, is the one the
\* negotiation returned; and no success line is printed otherwise.
C11_SuccessIffAllStagesSucceed ==
    /\ (pc = "done" /\ exitCode = 0) <=>
          (NegotiationReturnedTarget /\ TransferReturnedSuccess /\ FinalizeReturned200)
    /\ (pc = "done" /\ exitCode = 0) =>
          /\ Printed("upload_complete")
          /\ out[Len(out)] =
                SayText("chain_video_id", ResponseOf("get_upload_url").body.video_id)
          /\ \A i \in 1..Len(out) :
                out[i].tag \in {"video_id", "chain_video_id"} =>
                    out[i].text = ResponseOf("get_upload_url").body.video_id
    /\ (Printed("upload_complete") \/ Printed("video_id") \/ Printed("chain_video_id")) =>
          (pc = "done" /\ exitCode = 0)

\* C11 witness: scenario A with the second video id: negotiation returns
\* v2 with method POST, the storage answers 201, finalize answers 200
C11_Witness ==
    /\ pc = "done"
    /\ exitCode = 0
    /\ ResponseOf("get_upload_url").body.video_id = VideoId2
    /\ ResponseOf("get_upload_url").body.upload_url = "https://store/x"
    /\ ResponseOf("storage").status = 201
    /\ ResponseOf("finalize_upload").status = 200
    /\ out[Len(out)] = SayText("chain_video_id", VideoId2)


\* C12: when finalize answers 413 the invocation ends with a line that
\* names the exceeded limit, the duration when the payload detail mentions
\* duration and the size otherwise, and not with the line of main's generic
\* handler that a finalize transport failure ends with.
C12_Finalize413Classified ==
    (/\ Answered("finalize_upload")
     /\ ResponseOf("finalize_upload").kind = "response"
     /\ ResponseOf("finalize_upload").status = 413) =>
        /\ pc = "done"
        /\ exitCode = 1
        /\ IF MentionsDuration(ResponseOf("finalize_upload").body)
           THEN Printed("max_duration_90_minutes") /\ ~Printed("max_file_size_5GB")
           ELSE Printed("max_file_size_5GB") /\ ~Printed("max_duration_90_minutes")
        /\ ~Printed("upload_failed")

\* C13: a finalize response with a status other than 200 and 413 ends the
\* invocation with exit code 1, no success line, a line that shows the
\* status and a line that shows the response body.
C13_FinalizeFailureCarriesStatusAndBody ==
    (/\ Answered("finalize_upload")
     /\ ResponseOf("finalize_upload").kind = "response"
     /\ ResponseOf("finalize_upload").status \notin {200, 413}) =>
        LET r == ResponseOf("finalize_upload")
        IN  /\ pc = "done"
            /\ exitCode = 1
            /\ ~Printed("upload_complete")
            /\ \E i \in 1..Len(out) :
                 out[i].tag = "upload_failed" /\ out[i].status = r.status
            /\ \E i \in 1..Len(out) :
                 out[i].tag \in {"response_text", "response_data"} /\ out[i].body = r.body

ControlEndpoints == {"get_upload_url", "storage", "finalize_upload"}

\* C14: in one invocation each of the three endpoints receives at most one
\* request, whatever the responses or transport errors.
C14_NothingRetried ==
    /\ \A e \in ControlEndpoints : Sent(e) <= 1
    /\ Len(requests) <= 3
    /\ \A i \in 1..Len(requests) : requests[i].endpoint \in ControlEndpoints

\* C14 witness: all three requests went out once, the last one raised a
\* transport error, and the invocation is over
C14_Witness ==
    /\ pc = "done"
    /\ exitCode = 1
    /\ Len(requests) = 3
    /\ Len(responses) = 3
    /\ responses[3].kind = "exception"


\* What a finished negotiation adds to the output after its header line:
\* the lines of get_upload_url_with_metadata, or the line of main's handler
\* when the call raised
NegotiationReport(resp) ==
    IF NegotiationOutcome(resp) = "raise"
    THEN MainExcept(NegotiationError(resp))
    ELSE NegotiationLines(resp)

\* The control plane rejected the metadata: 400 or 413
IsValidationRejection(resp) ==
    resp.kind = "response" /\ resp.status \in {400, 413}

\* The negotiation failed and the answer is no validation rejection
IsNegotiationTransportFailure(resp) ==
    ~IsValidationRejection(resp) /\ NegotiationOutcome(resp) # "ok"

\* The header line each stage prints when it starts
StageHeader(stage) ==
    CASE stage = "probe"     -> "extracting_metadata"
      [] stage = "negotiate" -> "step1_getting_upload_url"
      [] stage = "transfer"  -> "step2_uploading"
      [] stage = "finalize"  -> "step3_finalizing"

\* C15: the output of a failed invocation tells which stage failed (the
\* headers printed are those of the stages entered, the failed one last),
\* and the output after a validation rejection at negotiation is never the
\* output that a transport failure of the same request would have given.
C15_FailureIdentifiesStageAndKind ==
    (pc = "done" /\ exitCode = 1 /\ stages # <<>>) =>
        /\ \A i \in 1..Len(StageOrder) :
             Printed(StageHeader(StageOrder[i])) <=> i <= Len(stages)
        /\ (/\ stages[Len(stages)] = "negotiate"
            /\ IsValidationRejection(ResponseOf("get_upload_url"))) =>
               LET k == CHOOSE i \in 1..Len(out) : out[i].tag = StageHeader("negotiate")
               IN  \A r2 \in NegotiationResponses :
                     IsNegotiationTransportFailure(r2) =>
                        out # SubSeq(out, 1, k) \o NegotiationReport(r2)


\* C16: a handle on the file is open only between the opening of the clip
\* and the end of the probe and between the sending of the storage request
\* and its outcome; none is open at a terminal state, whether the run ended
\* in success, a rejection, a transport error or an exception raised inside
\* the probe or by the storage request, and none while negotiation or
\* finalize is in progress.
C16_HandleReleasedOnEveryPath ==
    /\ fileOpen => pc \in {"probe_read", "transfer_wait"}
    /\ pc = "done" => ~fileOpen
    /\ pc \in {"negotiate", "negotiate_wait", "finalize", "finalize_wait"} => ~fileOpen

\* C16 witness: the storage request raised while the file was open, and the
\* invocation is over
C16_Witness ==
    /\ pc = "done"
    /\ exitCode = 1
    /\ Len(responses) = 2
    /\ responses[2].kind = "exception"
    /\ requests[2].streams_file
    /\ ~fileOpen


\* C17: when every remote call eventually returns or raises, the invocation
\* eventually ends with exit code 0 or 1; the exit code is set only at the
\* end and, once set, never changes; and the line that reports the upload as
\* complete is printed only at a successful end.
C17_EventuallyOneOutcome ==
    /\ <>(pc = "done" /\ exitCode \in {0, 1})
    /\ [](exitCode # -1 => pc = "done")
    /\ [][exitCode # -1 => exitCode' = exitCode /\ pc' = pc]_vars
    /\ [](Printed("upload_complete") => (pc = "done" /\ exitCode = 0))

\* C17 witness: all three calls returned, finalize with a server error, and
\* the invocation ended as a failure with no success report
C17_Witness ==
    /\ pc = "done"
    /\ exitCode = 1
    /\ Len(responses) = 3
    /\ \A i \in 1..3 : responses[i].kind = "response"
    /\ responses[3].status = 500
    /\ ~Printed("upload_complete")


\* The lower-cased extension of the path, read off PathsAndExtensions
ExtensionOf(path) == (CHOOSE row \in PathsAndExtensions : row[1] = path)[2]

\* The table of the claim: the MIME type of each of the six extensions, and
\* the fallback for every other extension
ClaimedType(ext, fallback) ==
    CASE ext = <<".","m","p","4">>     -> <<"v","i","d","e","o","/","m","p","4">>
      [] ext = <<".","m","o","v">>     -> <<"v","i","d","e","o","/","q","u","i","c","k","t","i","m","e">>
      [] ext = <<".","a","v","i">>     -> <<"v","i","d","e","o","/","x","-","m","s","v","i","d","e","o">>
      [] ext = <<".","w","e","b","m">> -> <<"v","i","d","e","o","/","w","e","b","m">>
      [] ext = <<".","m","k","v">>     -> <<"v","i","d","e","o","/","x","-","m","a","t","r","o","s","k","a">>
      [] ext = <<".","m","4","v">>     -> <<"v","i","d","e","o","/","x","-","m","4","v">>
      [] OTHER -> fallback

\* C18 as stated: the resolved content type is the explicit override when
\* one is given, otherwise the table entry of the lower-cased extension,
\* otherwise the generic binary type application/octet-stream.
C18_FallbackIsGenericBinary ==
    pc = "typed" =>
        content_type = IF argType # <<>> THEN argType
                       ELSE ClaimedType(ExtensionOf(file.path), TypeOctetStream)

\* C18 amended: the resolved content type is the explicit override when one
\* is given, otherwise the table entry of the lower-cased extension,
\* otherwise, for every extension not in the table, video/mp4.
C18_FallbackIsMp4 ==
    pc = "typed" =>
        content_type = IF argType # <<>> THEN argType
                       ELSE ClaimedType(ExtensionOf(file.path),
                                        <<"v","i","d","e","o","/","m","p","4">>)

\* C18 witness: no override and an extension outside the table
C18_Witness ==
    /\ pc = "typed"
    /\ argType = <<>>
    /\ file.path = PathTxt
    /\ content_type = TypeMp4


\* The answer of a control plane that runs the legacy protocol: 200 with the
\* asset id and the destination URL of a signed form, and no method tag
IsLegacyAnswer(resp) ==
    /\ resp.kind = "response"
    /\ resp.status = 200
    /\ resp.body.json
    /\ resp.body.keys = {"video_id", "upload_url"}

\* C19: against a control plane that answers in the legacy way, the upload
\* of an over-long file sends an intent that carries only filename and
\* content type, is accepted at negotiation so that the transfer request is
\* made, and is told that a limit is exceeded only by a 413 at finalize.
C19_LegacyRejectsOnlyAtFinalize ==
    (/\ file.duration_ms > DurationLimitMs
     /\ Answered("get_upload_url")
     /\ IsLegacyAnswer(ResponseOf("get_upload_url"))) =>
        /\ DOMAIN requests[1].json = {"filename", "content_type"}
        /\ pc = "done" => Sent("storage") = 1
        /\ (Printed("max_duration_90_minutes") \/ Printed("max_file_size_5GB")) =>
              /\ Answered("finalize_upload")
              /\ ResponseOf("finalize_upload").kind = "response"
              /\ ResponseOf("finalize_upload").status = 413

\* C20: for a target with the signed-form tag, the storage status 204 is the
\* only success; after every other status, 200 and 201 included, the
\* invocation ends as a failure and, as after a 400 in particular, no
\* finalize request is made.
C20_SignedFormSuccessIs204Only ==
    (/\ target.method = MethodForm
     /\ Answered("storage")
     /\ ResponseOf("storage").kind = "response") =>
        IF ResponseOf("storage").status = 204
        THEN Printed("upload_successful")
        ELSE /\ pc = "done"
             /\ exitCode = 1
             /\ ~Printed("upload_successful")
             /\ Sent("finalize_upload") = 0


\* C30: every request to get_upload_url and finalize_upload goes to the
\* control plane with the header Authorization: Bearer <API key>; the
\* request to the storage URL has no Authorization header and no header
\* value that contains the API key, for POST and PUT and every upload URL.
C30_KeyOnlyToControlPlane ==
    \A i \in 1..Len(requests) :
        IF requests[i].endpoint = "storage"
        THEN /\ "Authorization" \notin DOMAIN requests[i].headers
             /\ \A h \in DOMAIN requests[i].headers :
                  ~Contains(requests[i].headers[h], api_key)
             /\ requests[i].url = target.upload_url
        ELSE /\ api_key # <<>>
             /\ HasHeader(requests[i], "Authorization",
                          <<"B","e","a","r","e","r"," ">> \o api_key)
             /\ requests[i].url = DEFAULT_BASE_URL

\* C30 witness: a whole upload through the PUT branch to the second upload
\* URL, with the key taken from the environment
C30_Witness ==
    /\ pc = "done"
    /\ exitCode = 0
    /\ argKey = <<>>
    /\ api_key = KeyGood
    /\ Len(requests) = 3
    /\ requests[2].verb = "PUT"
    /\ requests[2].url = "https://store/form"


\* Request threads that have appended their entry and not yet finished the
\* length check and the eviction
Evicting == {t \in Threads : handler[t].pc \in {"check", "pop"}}

\* C22: whenever no handler is running, after any number of webhook POSTs
\* handled by interleaved request threads, the history holds at most
\* MAX_HISTORY entries; while handlers run it exceeds that by at most one
\* entry per handler that has not finished its eviction.
C22_HistoryIsBounded ==
    /\ NoHandlerActive => Len(webhook_history) <= MAX_HISTORY
    /\ Len(webhook_history) <= MAX_HISTORY + Cardinality(Evicting)

\* C22 witness: more payloads than MAX_HISTORY were accepted by two request
\* threads, both have returned, and the history is full
C22_Witness ==
    /\ NoHandlerActive
    /\ \A t \in Threads : handler[t].pc = "returned" /\ handler[t].status = 200
    /\ accepted = MaxWebhooks
    /\ Len(webhook_history) = MAX_HISTORY

\* C25: after n payloads handled one at a time the history holds the most
\* recent min(n, 100) of them in arrival order, and every answer of
\* GET /history holds the most recent min(n, 10) in arrival order with
\* total equal to the length of the history.
C25_HistoryKeepsMostRecent ==
    /\ [](NoHandlerActive =>
            /\ Len(webhook_history) = (IF accepted < 100 THEN accepted ELSE 100)
            /\ \A i \in 1..Len(webhook_history) :
                 webhook_history[i].data.id = accepted - Len(webhook_history) + i)
    /\ [][(reply' # reply /\ reply'.kind = "history") =>
            /\ reply'.total = Len(webhook_history)
            /\ Len(reply'.history) = (IF accepted < 10 THEN accepted ELSE 10)
            /\ \A i \in 1..Len(reply'.history) :
                 reply'.history[i].data.id = accepted - Len(reply'.history) + i]_vars

\* C25 witness: GET /history after the oldest two payloads were evicted
C25_Witness ==
    /\ accepted = 102
    /\ NoHandlerActive
    /\ reply.kind = "history"
    /\ reply.total = 100
    /\ Len(reply.history) = 10
    /\ reply.history[10].data.id = 102
    /\ webhook_history[1].data.id = 3

\* C26: whenever no handler is running, the count that GET / reports as
\* webhooks_received equals the number of payloads accepted since the start,
\* and so does the total printed at shutdown.
C26_ReceivedCountIsExact ==
    /\ NoHandlerActive => ReceivedCount(webhook_history) = accepted
    /\ reply.kind = "home" => reply.webhooks_received <= accepted
    /\ stopped.printed => stopped.total = accepted

\* The body is a JSON value with content
IsNonEmptyJson(body) == body.declared_json /\ body.content = "json" /\ Truthy(body.value)

\* The body is missing or is the empty object or the empty array
IsMissingOrEmpty(body) ==
    \/ body.content = "missing"
    \/ body.content = "json" /\ body.value \in {EmptyObjectValue, EmptyArrayValue}

\* C27: in the api-call listener a POST with a non-empty JSON body is
\* answered 200 when no secret is configured; with a secret configured
\* (the flag, else the environment variable) it is answered 200 when the
\* X-Mosaic-Signature header equals the secret and 401 otherwise; and a
\* payload answered 401 is in the history.
C27_SecretDecidesStatus ==
    listener = "api-call" =>
        \A t \in Threads :
            (handler[t].pc = "returned" /\ IsNonEmptyJson(handler[t].body)) =>
                LET secret == IF flagSecret # "" THEN flagSecret ELSE envSecret
                IN  /\ handler[t].status =
                          IF secret = "" \/ handler[t].signature = secret
                          THEN 200 ELSE 401
                    /\ handler[t].status = 401 =>
                          \E i \in 1..Len(webhook_history) :
                              webhook_history[i].data = handler[t].body.value

\* C28: in both listeners a POST whose body is missing or is an empty JSON
\* value is answered 400 whatever the signature header, and no such body is
\* ever stored: the history holds the accepted payloads only.
C28_EmptyBodyRefused ==
    /\ \A t \in Threads :
          (handler[t].pc = "returned" /\ IsMissingOrEmpty(handler[t].body)) =>
              handler[t].status = 400
    /\ \A t \in Threads :
          IsMissingOrEmpty(handler[t].body) =>
              handler[t].pc \in {"idle", "parse", "returned"}
    /\ \A i \in 1..Len(webhook_history) : Truthy(webhook_history[i].data)

(***************************************************************************)
(* youtube-automation/add_triggers.py                                      *)
(***************************************************************************)

\* JSON null inside a request payload
JsonNull == [null |-> TRUE]

RECURSIVE SplitOn(_, _)
\* str.split(sep) for a one-character separator
SplitOn(s, sep) ==
    IF \A i \in 1..Len(s) : s[i] # sep
    THEN <<s>>
    ELSE LET k == CHOOSE i \in 1..Len(s) :
                      s[i] = sep /\ \A j \in 1..(i - 1) : s[j] # sep
         IN <<SubSeq(s, 1, k - 1)>> \o SplitOn(SubSeq(s, k + 1, Len(s)), sep)

RECURSIVE StripSpaces(_)
\* str.strip() over the blanks that occur in the modelled command lines
StripSpaces(s) ==
    IF s = <<>> THEN s
    ELSE IF Head(s) = " " THEN StripSpaces(Tail(s))
    ELSE IF s[Len(s)] = " " THEN StripSpaces(SubSeq(s, 1, Len(s) - 1))
    ELSE s

RECURSIVE MapStrip(_)
\* [ch.strip() for ch in parts if ch.strip()]
MapStrip(parts) ==
    IF parts = <<>> THEN <<>>
    ELSE LET ch == StripSpaces(Head(parts))
         IN (IF ch # <<>> THEN <<ch>> ELSE <<>>) \o MapStrip(Tail(parts))

YoutubeCom == <<"y","o","u","t","u","b","e",".","c","o","m">>
YoutuBe == <<"y","o","u","t","u",".","b","e">>

\* The channel formats parse_channels accepts without a warning
KnownChannelFormat(channel) ==
    \/ StartsWith(channel, <<"U","C">>) /\ Len(channel) = 24
    \/ Contains(channel, YoutubeCom) \/ Contains(channel, YoutuBe)
    \/ StartsWith(channel, <<"@">>)

\* parse_channels: the list it returns
parse_channels(channels_str) == MapStrip(SplitOn(channels_str, ","))

\* parse_channels: one warning per channel of unknown format
ChannelWarnings(channels) ==
    [i \in 1..Len(SelectSeq(channels, LAMBDA c : ~KnownChannelFormat(c))) |->
        [tag |-> "warning",
         channel |-> SelectSeq(channels, LAMBDA c : ~KnownChannelFormat(c))[i]]]

\* validate_webhook_url over the parts urlparse yields
validate_webhook_url(url) ==
    url.scheme \in {"http", "https"} /\ url.netloc # ""

NoWebhook == Url("", "")
HookGood == Url("https", "hooks.example")
HookFtp == Url("ftp", "hooks.example")
HookNoHost == Url("https", "")

\* --webhook; NoWebhook stands for "not given"
WebhookArgs == {NoWebhook, HookGood, HookFtp, HookNoHost}

ChannelId == <<"U","C">> \o [i \in 1..22 |-> "x"]
Handle == <<"@","a">>

\* --channels
ChannelArgs ==
    {<<>>, <<","," ">>, Handle, <<" ">> \o Handle \o <<","," ","z",",">>,
     ChannelId \o <<",">> \o YoutuBe}

\* What the trigger endpoints may answer: a transport failure, or a status
\* with a body that is empty, not JSON, or one of a few JSON values
TriggerValues == {"empty", "ok", "object", "youtube", "youtube_hook"}

TriggerResponses ==
    {[kind |-> "raise", status |-> 0, text |-> FALSE, value |-> "none"]} \cup
    {[kind |-> "http", status |-> st, text |-> FALSE, value |-> "none"] :
        st \in {200, 404, 500}} \cup
    {[kind |-> "http", status |-> st, text |-> TRUE, value |-> v] :
        st \in {200, 404, 500}, v \in TriggerValues \cup {"notjson"}}

\* raise_for_status raises for 400..599
RaisesForStatus(resp) == resp.status >= 400 /\ resp.status < 600

\* the truth value of a parsed JSON value
ValueTruthy(v) == v # "empty"

\* add_youtube_channels: the JSON payload of the request
AddChannelsPayload(channels, callback_url) ==
    IF callback_url # None
    THEN [youtube_channels |-> channels, trigger_callback_url |-> callback_url]
    ELSE [youtube_channels |-> channels]

\* add_youtube_channels: the request
AddChannelsRequest(key, channels, callback_url) ==
    [method |-> "POST", path |-> "/agent/<id>/triggers/add_youtube_channels",
     auth |-> key, json |-> AddChannelsPayload(channels, callback_url)]

\* get_triggers: the request
GetTriggersRequest(key) ==
    [method |-> "GET", path |-> "/agent/<id>/triggers", auth |-> key,
     json |-> None]

\* add_youtube_channels: what it returns, or "raise"
AddChannelsResult(resp) ==
    IF resp.kind = "raise" \/ RaisesForStatus(resp) THEN "raise"
    ELSE IF ~resp.text THEN "ok"
    ELSE IF resp.value = "notjson" THEN "raise"
    ELSE resp.value

\* get_triggers: what it returns, or "raise"
GetTriggersResult(resp) ==
    IF resp.kind = "raise" \/ RaisesForStatus(resp) THEN "raise"
    ELSE IF ~resp.text \/ resp.value = "notjson" THEN "raise"
    ELSE resp.value

\* the lines the two except clauses of a request print
RequestErrorLines(what, resp) ==
    IF resp.kind = "http" /\ RaisesForStatus(resp)
    THEN <<[tag |-> what, status |-> resp.status]>> \o
         (IF resp.text THEN <<[tag |-> "response", value |-> resp.value]>>
          ELSE <<>>)
    ELSE <<[tag |-> "unexpected"]>>

\* args.api_key or os.environ.get('MOSAIC_API_KEY')
TriggerKey == KeyOrEnv(tArgs.api_key, tArgs.env_key)

\* main: the webhook URL passed to add_youtube_channels
WebhookUrl ==
    IF tArgs.remove_webhook THEN None
    ELSE IF tArgs.webhook # NoWebhook THEN tArgs.webhook
    ELSE None

TriggerExit(lines) ==
    /\ tOut' = tOut \o lines
    /\ tPc' = "done"
    /\ tExit' = 1

\* main up to the construction of the manager
TriggerMain ==
    /\ tPc = "start"
    /\ LET channels == parse_channels(tArgs.channels)
       IN IF TriggerKey = <<>>
          THEN TriggerExit(<<[tag |-> "key_required"]>>)
          ELSE IF ~StartsWith(TriggerKey, <<"m","k","_">>)
          THEN TriggerExit(<<[tag |-> "key_format"]>>)
          ELSE IF channels = <<>>
          THEN TriggerExit(ChannelWarnings(channels) \o
                           <<[tag |-> "no_channels"]>>)
          ELSE IF tArgs.remove_webhook
          THEN /\ tOut' = tOut \o ChannelWarnings(channels) \o
                          <<[tag |-> "will_remove"]>>
               /\ tPc' = "add"
               /\ tExit' = tExit
          ELSE IF tArgs.webhook # NoWebhook
                  /\ ~validate_webhook_url(tArgs.webhook)
          THEN TriggerExit(ChannelWarnings(channels) \o
                           <<[tag |-> "invalid_webhook"]>>)
          ELSE /\ tOut' = tOut \o ChannelWarnings(channels)
               /\ tPc' = "add"
               /\ tExit' = tExit
    /\ UNCHANGED <<tArgs, tRequests>>
    /\ UNCHANGED NotTrigger

\* add_youtube_channels up to requests.post
AddChannelsSend ==
    /\ tPc = "add"
    /\ tOut' = tOut \o <<[tag |-> "adding"]>> \o
               (IF WebhookUrl # None THEN <<[tag |-> "webhook_url"]>>
                ELSE <<>>)
    /\ tRequests' = Append(tRequests,
           AddChannelsRequest(TriggerKey, parse_channels(tArgs.channels),
                              WebhookUrl))
    /\ tPc' = "add_wait"
    /\ UNCHANGED <<tArgs, tExit>>
    /\ UNCHANGED NotTrigger

\* add_youtube_channels from the answer on, and main's report of it
AddChannelsRecv(resp) ==
    /\ tPc = "add_wait"
    /\ LET result == AddChannelsResult(resp)
       IN IF result = "raise"
          THEN TriggerExit(RequestErrorLines("error_adding", resp) \o
                           <<[tag |-> "failed"]>>)
          ELSE /\ tOut' = tOut \o <<[tag |-> "added"]>> \o
                          (IF ValueTruthy(result) /\ result # "ok"
                           THEN <<[tag |-> "response", value |-> result]>>
                           ELSE <<>>)
               /\ tPc' = "verify"
               /\ tExit' = tExit
    /\ UNCHANGED <<tArgs, tRequests>>
    /\ UNCHANGED NotTrigger

\* get_triggers up to requests.get
GetTriggersSend ==
    /\ tPc = "verify"
    /\ tOut' = tOut \o <<[tag |-> "fetching"]>>
    /\ tRequests' = Append(tRequests, GetTriggersRequest(TriggerKey))
    /\ tPc' = "verify_wait"
    /\ UNCHANGED <<tArgs, tExit>>
    /\ UNCHANGED NotTrigger

\* main: the lines that display the trigger configuration
TriggerDisplay(triggers) ==
    IF ~ValueTruthy(triggers) THEN <<[tag |-> "no_triggers"]>>
    ELSE <<[tag |-> "verified"]>> \o
         (IF triggers = "youtube_hook"
          THEN <<[tag |-> "trigger", webhook |-> TRUE]>>
          ELSE IF triggers = "youtube"
          THEN <<[tag |-> "trigger", webhook |-> FALSE]>>
          ELSE <<>>)

\* get_triggers from the answer on, and the rest of main
GetTriggersRecv(resp) ==
    /\ tPc = "verify_wait"
    /\ LET triggers == GetTriggersResult(resp)
       IN IF triggers = "raise"
          THEN TriggerExit(RequestErrorLines("error_fetching", resp) \o
                           <<[tag |-> "failed"]>>)
          ELSE /\ tOut' = tOut \o TriggerDisplay(triggers) \o
                          <<[tag |-> "complete"]>> \o
                          (IF WebhookUrl # None THEN <<[tag |-> "tip"]>>
                           ELSE <<>>)
               /\ tPc' = "done"
               /\ tExit' = 0
    /\ UNCHANGED <<tArgs, tRequests>>
    /\ UNCHANGED NotTrigger

TriggerInit ==
    /\ tArgs \in [api_key : ApiKeys, env_key : ApiKeys, channels : ChannelArgs,
                  webhook : WebhookArgs, remove_webhook : BOOLEAN]
    /\ tPc = "start"
    /\ tRequests = <<>>
    /\ tOut = <<>>
    /\ tExit = -1
    /\ UploadIdle /\ ListenerIdle /\ StatusIdle /\ AuthIdle

TriggerNext ==
    \/ TriggerMain
    \/ AddChannelsSend
    \/ \E resp \in TriggerResponses : AddChannelsRecv(resp)
    \/ GetTriggersSend
    \/ \E resp \in TriggerResponses : GetTriggersRecv(resp)

TriggerSpec == TriggerInit /\ [][TriggerNext]_vars

\* The add_youtube_channels request, once sent
AddRequestSent == Len(tRequests) >= 1

\* C23: with --remove-webhook the add_youtube_channels request carries
\* trigger_callback_url with a null value, and so differs from the request
\* sent when neither --webhook nor --remove-webhook is given
C23_RemoveWebhookSendsNull ==
    (AddRequestSent /\ tArgs.remove_webhook) =>
        /\ "trigger_callback_url" \in DOMAIN tRequests[1].json
        /\ tRequests[1].json.trigger_callback_url = JsonNull
        /\ tRequests[1] #
               AddChannelsRequest(TriggerKey, parse_channels(tArgs.channels),
                                  None)

(***************************************************************************)
(* api-call/get_status.py                                                  *)
(***************************************************************************)

\* --interval: the default, zero, and a negative number (argparse accepts
\* any int)
Intervals == {5, 0, -1}

\* The "status" field of a run; "absent" when the object has no such key
RunStatuses == {"running", "completed", "failed", "absent"}

\* The "outputs" field: absent, a list of objects with a video_url, or a
\* list whose items are not objects
OutputsKinds == {"none", "good", "bad"}

\* What GET /agent_run/<id> may come back with: a transport failure, an HTTP
\* error, or a 200 whose body is not JSON, a JSON list, or a JSON object
StatusResponses ==
    {[kind |-> "raise", status |-> 0, body |-> "none", run |-> "absent",
      outputs |-> "none"]} \cup
    {[kind |-> "http", status |-> st, body |-> "notjson", run |-> "absent",
      outputs |-> "none"] : st \in {200, 404, 500}} \cup
    {[kind |-> "http", status |-> 200, body |-> "list", run |-> "absent",
      outputs |-> "none"]} \cup
    {[kind |-> "http", status |-> 200, body |-> "object", run |-> r,
      outputs |-> o] : r \in RunStatuses, o \in OutputsKinds}

\* fetch_status: "exit" for the handled HTTP error, "raise" for an exception
\* nothing catches, "data" when it returns the parsed body
FetchOutcome(resp) ==
    IF resp.kind = "raise" THEN "raise"
    ELSE IF resp.status >= 400 /\ resp.status < 600 THEN "exit"
    ELSE IF resp.body = "notjson" THEN "raise"
    ELSE "data"

\* print_summary: the lines it prints before it returns or raises
SummaryLines(data) ==
    IF data.body # "object" THEN <<>>
    ELSE <<[tag |-> "status", status |-> data.run]>> \o
         (IF data.outputs = "none" THEN <<>>
          ELSE <<[tag |-> "outputs", status |-> data.run]>> \o
               (IF data.outputs = "good"
                THEN <<[tag |-> "url", status |-> data.run]>> ELSE <<>>))

\* print_summary raises: data.get on a list, out.get on a non-object item
SummaryRaises(data) == data.body # "object" \/ data.outputs = "bad"

\* data.get("status") in ("completed", "failed")
IsTerminal(status) == status \in {"completed", "failed"}

\* time.sleep raises ValueError for a negative length
SleepRaises(interval) == interval < 0

\* print(json.dumps(data, indent=2))
FullResponse(data) == [tag |-> "full", status |-> data.run]

\* An exception nothing catches: the interpreter prints the traceback and
\* exits with code 1
Traceback == [tag |-> "traceback", status |-> "absent"]

StatusStop(lines, code) ==
    /\ sOut' = sOut \o lines
    /\ sPc' = "done"
    /\ sExit' = code

\* main up to the first fetch: resolve_api_key and the watch banner
StatusMain ==
    /\ sPc = "start"
    /\ LET key == KeyOrEnv(sArgs.api_key, sArgs.env_key)
       IN IF key = <<>>
          THEN StatusStop(<<[tag |-> "key_required", status |-> "absent"]>>, 1)
          ELSE IF ~StartsWith(key, <<"m","k","_">>)
          THEN StatusStop(<<[tag |-> "key_format", status |-> "absent"]>>, 1)
          ELSE /\ sOut' = sOut \o
                          (IF sArgs.watch
                           THEN <<[tag |-> "watching", status |-> "absent"]>>
                           ELSE <<>>)
               /\ sPc' = "fetch"
               /\ sExit' = sExit
    /\ UNCHANGED <<sArgs, sResponses, sRequests>>
    /\ UNCHANGED NotStatus

\* fetch_status: requests.get is issued
FetchSend ==
    /\ sPc = "fetch"
    /\ sRequests < MaxPolls
    /\ sRequests' = sRequests + 1
    /\ sPc' = "wait"
    /\ UNCHANGED <<sArgs, sResponses, sOut, sExit>>
    /\ UNCHANGED NotStatus

\* the rest of fetch_status and of main's use of the data, up to the next
\* fetch or the end of the process
FetchRecv(resp) ==
    /\ sPc = "wait"
    /\ sResponses' = Append(sResponses, resp)
    /\ LET outcome == FetchOutcome(resp)
       IN IF outcome = "exit"
          THEN StatusStop(<<[tag |-> "fetch_failed", status |-> "absent"]>>, 1)
          ELSE IF outcome = "raise"
          THEN StatusStop(<<Traceback>>, 1)
          ELSE IF ~sArgs.watch
          THEN StatusStop(<<FullResponse(resp)>>, 0)
          ELSE IF SummaryRaises(resp)
          THEN StatusStop(SummaryLines(resp) \o <<Traceback>>, 1)
          ELSE IF IsTerminal(resp.run)
          THEN StatusStop(SummaryLines(resp) \o <<FullResponse(resp)>>, 0)
          ELSE IF SleepRaises(sArgs.interval)
          THEN StatusStop(SummaryLines(resp) \o <<Traceback>>, 1)
          ELSE /\ sOut' = sOut \o SummaryLines(resp)
               /\ sPc' = "fetch"
               /\ sExit' = sExit
    /\ UNCHANGED <<sArgs, sRequests>>
    /\ UNCHANGED NotStatus

StatusInit ==
    /\ sArgs \in [api_key : ApiKeys, env_key : ApiKeys, watch : BOOLEAN,
                  interval : Intervals]
    /\ sPc = "start"
    /\ sResponses = <<>>
    /\ sRequests = 0
    /\ sOut = <<>>
    /\ sExit = -1
    /\ UploadIdle /\ ListenerIdle /\ TriggerIdle /\ AuthIdle

StatusNext ==
    \/ StatusMain
    \/ FetchSend
    \/ \E resp \in StatusResponses : FetchRecv(resp)

StatusSpec == StatusInit /\ [][StatusNext]_vars

\* The last answer reported a run status that is neither completed nor failed
ReportedNonTerminal ==
    /\ sResponses # <<>>
    /\ sResponses[Len(sResponses)].kind = "http"
    /\ sResponses[Len(sResponses)].status = 200
    /\ sResponses[Len(sResponses)].body = "object"
    /\ ~IsTerminal(sResponses[Len(sResponses)].run)

\* The last answer was an HTTP error
FetchedHttpError ==
    /\ sResponses # <<>>
    /\ FetchOutcome(sResponses[Len(sResponses)]) = "exit"

\* The number of times the full response was printed
FullPrints == Cardinality({i \in 1..Len(sOut) : sOut[i].tag = "full"})

\* C24: in watch mode the loop never stops while the reported status is
\* neither completed nor failed (an HTTP error exits with code 1), the full
\* response is printed exactly once, on the first terminal status, and no
\* request follows it
C24_WatchStopsOnlyOnTerminal ==
    sArgs.watch =>
        /\ ReportedNonTerminal => sPc # "done"
        /\ FetchedHttpError => (sPc = "done" /\ sExit = 1)
        /\ \A i \in 1..Len(sResponses) :
               (FetchOutcome(sResponses[i]) = "data"
                /\ sResponses[i].body = "object"
                /\ IsTerminal(sResponses[i].run)) =>
                   /\ i = Len(sResponses)
                   /\ sRequests = i
                   /\ FullPrints = 1
        /\ FullPrints <= 1

(***************************************************************************)
(* youtube-automation/test_auth.py                                         *)
(***************************************************************************)

\* A key long enough for the min_length validation
KeyLong == <<"m","k","_">> \o [i \in 1..8 |-> "x"]

\* args.api_key or os.environ.get('MOSAIC_API_KEY'); <<>> when neither is set
AuthKeys == {<<>>, KeyGood, KeyLong}

\* test_alternative_endpoints: test_endpoints, all requested with GET
AltEndpoints ==
    <<"/me", "/user", "/account", "/auth/verify", "/auth/validate",
      "/api/whoami", "/api/me", "/videos/get_upload_url">>

\* status_code and response of a result that has none (None or no such key)
NoStatus == -1
NoText == "<none>"

\* A request that was not answered yet
NoAnswer == [kind |-> "pending", status |-> 0, body |-> ""]

\* An answer: a transport failure (RequestException), or a status with a
\* body that is empty, JSON ("json") or other text ("text")
Answer(status, body) == [kind |-> "http", status |-> status, body |-> body]
Raised == [kind |-> "raise", status |-> 0, body |-> ""]

WhoamiAnswers ==
    {Raised} \cup
    {Answer(st, b) : st \in {200, 204, 401, 403, 404, 500},
                     b \in {"", "json", "text"}}

AltAnswers ==
    {Raised, Answer(401, ""), Answer(404, ""), Answer(200, "json"),
     Answer(200, "text"), Answer(204, "")}

\* requests.Response.__bool__: the truth value of a response is its ok
\* property, false when raise_for_status would raise
ResponseTruthy(resp) == ~(resp.status >= 400 /\ resp.status < 600)

\* response.json() if response.text else {}: "raise" when the text is not JSON
DataOf(resp) ==
    IF resp.body = "" THEN "empty"
    ELSE IF resp.body = "json" THEN "json"
    ELSE "raise"

Result(success, status_code, response, endpoint, error, tested) ==
    [success |-> success, status_code |-> status_code, response |-> response,
     endpoint |-> endpoint, error |-> error, tested_endpoints |-> tested]

\* test_whoami: the dictionary of the except HTTPError clause
HttpErrorResult(resp) ==
    Result(FALSE,
           IF ResponseTruthy(resp) THEN resp.status ELSE NoStatus,
           IF ResponseTruthy(resp) THEN resp.body ELSE NoText,
           "", TRUE, <<>>)

\* test_whoami: the dictionary of the except RequestException clause
RequestErrorResult == Result(FALSE, NoStatus, NoText, "", TRUE, <<>>)

\* validate_api_key_format: all four validations pass
AllValid(key) ==
    /\ StartsWith(key, <<"m","k","_">>)
    /\ Len(key) > 10
    /\ ~Contains(key, <<" ">>)
    /\ ~Contains(key, <<"\"">>) /\ ~Contains(key, <<"'">>)

\* print_results: the lines about the API call and the summary
ResultLines(key, results) ==
    (IF AllValid(key) THEN <<>> ELSE <<"format_warning">>) \o
    (IF results.success
     THEN <<"auth_ok">> \o
          (IF results.endpoint # "" THEN <<"endpoint">> ELSE <<>>) \o
          <<"status_code">>
     ELSE <<"auth_failed">> \o
          (IF results.status_code # NoStatus
           THEN <<"status_code">> \o
                (IF results.status_code = 401 THEN <<"unauthorized">>
                 ELSE IF results.status_code = 403 THEN <<"forbidden">>
                 ELSE IF results.status_code = 404 THEN <<"not_found">>
                 ELSE <<"unexpected_status">>)
           ELSE <<>>) \o
          (IF results.error THEN <<"error_details">> ELSE <<>>) \o
          (IF results.response \notin {NoText, ""} THEN <<"response_body">>
           ELSE <<>>)) \o
    (IF results.success /\ AllValid(key) THEN <<"SUCCESS">>
     ELSE IF results.success THEN <<"PARTIAL SUCCESS">>
     ELSE <<"FAILED">>)

\* main from the return of test_whoami: print_results and sys.exit
AuthFinish(results) ==
    /\ aResults' = results
    /\ aOut' = aOut \o ResultLines(aKey, results)
    /\ aPc' = "done"
    /\ aExit' = IF results.success THEN 0 ELSE 1

\* An exception nothing catches ends the process with a traceback, code 1
AuthCrash ==
    /\ aOut' = Append(aOut, "traceback")
    /\ aPc' = "done"
    /\ aExit' = 1
    /\ UNCHANGED aResults

\* main up to the call of test_whoami
AuthMain ==
    /\ aPc = "start"
    /\ IF aKey = <<>>
       THEN /\ aOut' = Append(aOut, "key_required")
            /\ aPc' = "done"
            /\ aExit' = 1
       ELSE /\ aOut' = Append(aOut, "testing")
            /\ aPc' = "whoami"
            /\ aExit' = aExit
    /\ UNCHANGED <<aKey, aRequests, aResults>>
    /\ UNCHANGED NotAuth

\* test_whoami: requests.get is issued
WhoamiSend ==
    /\ aPc = "whoami"
    /\ aRequests' = Append(aRequests, [path |-> "/whoami", answer |-> NoAnswer])
    /\ aPc' = "whoami_wait"
    /\ UNCHANGED <<aKey, aResults, aOut, aExit>>
    /\ UNCHANGED NotAuth

\* test_whoami from the answer on.  json() on a body that is not JSON raises
\* an error that is a RequestException in recent releases of requests and a
\* plain ValueError in older ones: jsonErrorCaught chooses
WhoamiRecv(resp, jsonErrorCaught) ==
    /\ aPc = "whoami_wait"
    /\ aRequests' = [aRequests EXCEPT ![Len(aRequests)].answer = resp]
    /\ IF resp.kind = "raise"
       THEN AuthFinish(RequestErrorResult)
       ELSE IF resp.status = 404
       THEN /\ aPc' = "alt"
            /\ UNCHANGED <<aResults, aOut, aExit>>
       ELSE IF ~ResponseTruthy(resp)
       THEN AuthFinish(HttpErrorResult(resp))
       ELSE IF DataOf(resp) # "raise"
       THEN AuthFinish(Result(TRUE, resp.status, NoText, "", FALSE, <<>>))
       ELSE IF jsonErrorCaught
       THEN AuthFinish(RequestErrorResult)
       ELSE AuthCrash
    /\ UNCHANGED aKey
    /\ UNCHANGED NotAuth

\* The alternative endpoints requested so far
AltTried == Len(aRequests) - 1

\* test_alternative_endpoints: the next requests.get is issued
AltSend ==
    /\ aPc = "alt"
    /\ AltTried < Len(AltEndpoints)
    /\ aRequests' = Append(aRequests, [path |-> AltEndpoints[AltTried + 1],
                                       answer |-> NoAnswer])
    /\ aPc' = "alt_wait"
    /\ UNCHANGED <<aKey, aResults, aOut, aExit>>
    /\ UNCHANGED NotAuth

\* test_alternative_endpoints: the list "results" after this answer
Tested(resp) ==
    IF resp.kind = "http" /\ resp.status \in {401, 403}
    THEN Append(aResults.tested_endpoints,
                [endpoint |-> AltEndpoints[AltTried],
                 status_code |-> resp.status])
    ELSE aResults.tested_endpoints

\* test_alternative_endpoints from one answer to the next request or the
\* return, and main from there
AltRecv(resp) ==
    /\ aPc = "alt_wait"
    /\ aRequests' = [aRequests EXCEPT ![Len(aRequests)].answer = resp]
    /\ IF /\ resp.kind = "http"
          /\ resp.status \in {200, 201, 204}
          /\ DataOf(resp) # "raise"
       THEN AuthFinish(Result(TRUE, resp.status, NoText,
                              AltEndpoints[AltTried], FALSE, <<>>))
       ELSE IF AltTried = Len(AltEndpoints)
       THEN AuthFinish(Result(FALSE, NoStatus, NoText, "", FALSE,
                              Tested(resp)))
       ELSE /\ aResults' = [aResults EXCEPT !.tested_endpoints = Tested(resp)]
            /\ aPc' = "alt"
            /\ UNCHANGED <<aOut, aExit>>
    /\ UNCHANGED aKey
    /\ UNCHANGED NotAuth

AuthInit ==
    /\ aKey \in AuthKeys
    /\ aPc = "start"
    /\ aRequests = <<>>
    /\ aResults = NoResults
    /\ aOut = <<>>
    /\ aExit = -1
    /\ UploadIdle /\ ListenerIdle /\ TriggerIdle /\ StatusIdle

AuthNext ==
    \/ AuthMain
    \/ WhoamiSend
    \/ \E resp \in WhoamiAnswers, caught \in BOOLEAN : WhoamiRecv(resp, caught)
    \/ AltSend
    \/ \E resp \in AltAnswers : AltRecv(resp)

AuthSpec == AuthInit /\ [][AuthNext]_vars

\* What /whoami answered, once test_auth has finished
WhoamiAnswer == aRequests[1].answer

\* /whoami answered a 4xx or 5xx status other than 404
WhoamiRefused ==
    /\ aPc = "done" /\ aRequests # <<>>
    /\ WhoamiAnswer.kind = "http"
    /\ WhoamiAnswer.status >= 400 /\ WhoamiAnswer.status < 600
    /\ WhoamiAnswer.status # 404

\* /whoami answered 404 and the alternative endpoints were gone through
WhoamiMissing ==
    /\ aPc = "done" /\ aRequests # <<>>
    /\ WhoamiAnswer.kind = "http" /\ WhoamiAnswer.status = 404

\* Request i was answered 200, 201 or 204
AnsweredOk(i) ==
    /\ aRequests[i].answer.kind = "http"
    /\ aRequests[i].answer.status \in {200, 201, 204}

\* C29: a 4xx/5xx answer to /whoami other than 404 gives success False with
\* status_code the HTTP status and response the body, so that 401 is printed
\* as Unauthorized and 403 as Forbidden; after a 404 the alternative
\* endpoints are requested in their listed order and the first one answering
\* 200, 201 or 204 gives success; the exit code is 0 exactly on success
C29_WhoamiFailureCarriesStatus ==
    /\ WhoamiRefused =>
           /\ ~aResults.success
           /\ aResults.status_code = WhoamiAnswer.status
           /\ aResults.response = WhoamiAnswer.body
           /\ WhoamiAnswer.status = 401 =>
                  \E i \in 1..Len(aOut) : aOut[i] = "unauthorized"
           /\ WhoamiAnswer.status = 403 =>
                  \E i \in 1..Len(aOut) : aOut[i] = "forbidden"
    /\ WhoamiMissing =>
           /\ \A i \in 2..Len(aRequests) :
                  aRequests[i].path = AltEndpoints[i - 1]
           /\ \A i \in 2..Len(aRequests) :
                  AnsweredOk(i) =>
                      /\ i = Len(aRequests)
                      /\ aResults.success
                      /\ aResults.endpoint = AltEndpoints[i - 1]
    /\ aPc = "done" => (aExit = 0 <=> aResults.success)

=============================================================================
